---- MODULE Spec2Model ----
(***************************************************************************)
(* Model of knuckles-parse: the fixed-column PDB line codecs, the record   *)
(* classifier Record::try_from, and the two drivers pdbreader_single and   *)
(* pdbreader_parallel with their atom-serial backfill pass.                *)
(*                                                                         *)
(* A line is a TLA+ string (ASCII only, without its newline); byte offsets *)
(* of the Rust source are 0-based and end-exclusive, SubSeq is 1-based and *)
(* end-inclusive, so str[a..b] is SubSeq(str, a + 1, b).                   *)
(* Option<T> is <<>> (None) or <<v>> (Some(v)); Result<T, E> of a parse is *)
(* <<>> (Err) or <<v>> (Ok(v)).  A panic is an outcome of its own.         *)
(***************************************************************************)
EXTENDS Integers, Sequences, FiniteSets, TLC

(***************************************************************************)
(* Bounds of the model.                                                    *)
(***************************************************************************)
\* longest input text, in lines, of the general specification
MaxLines == 3
\* longest input text, in lines, of the serial-backfill specification
MaxAtoms == 5
\* longest run of bytes after the tag, of the classifier specification
MaxTail == 2
\* the largest number of a rendered model record
MaxNumber == 10000

(***************************************************************************)
(* Primitive types of the Rust standard library.                           *)
(***************************************************************************)
None == <<>>
Some(v) == <<v>>
IsSome(o) == o # <<>>
Unwrap(o) == o[1]

\* the character at 1-based position i, as a one-character string
CharAt(s, i) == SubSeq(s, i, i)

\* char::is_whitespace restricted to the ASCII characters the inputs use
IsWhitespace(c) == c = " "

\* char::is_ascii_alphabetic
IsAsciiAlphabetic(c) ==
    c \in {"a", "b", "c", "d", "e", "f", "g", "h", "i", "j", "k", "l", "m",
           "n", "o", "p", "q", "r", "s", "t", "u", "v", "w", "x", "y", "z",
           "A", "B", "C", "D", "E", "F", "G", "H", "I", "J", "K", "L", "M",
           "N", "O", "P", "Q", "R", "S", "T", "U", "V", "W", "X", "Y", "Z"}

\* char::to_digit(36): the digit value of a character, -1 when it has none
DigitValue(c) ==
    CASE c = "0" -> 0 [] c = "1" -> 1 [] c = "2" -> 2 [] c = "3" -> 3
      [] c = "4" -> 4 [] c = "5" -> 5 [] c = "6" -> 6 [] c = "7" -> 7
      [] c = "8" -> 8 [] c = "9" -> 9
      [] c \in {"a", "A"} -> 10 [] c \in {"b", "B"} -> 11
      [] c \in {"c", "C"} -> 12 [] c \in {"d", "D"} -> 13
      [] c \in {"e", "E"} -> 14 [] c \in {"f", "F"} -> 15
      [] c \in {"g", "G"} -> 16 [] c \in {"h", "H"} -> 17
      [] c \in {"i", "I"} -> 18 [] c \in {"j", "J"} -> 19
      [] c \in {"k", "K"} -> 20 [] c \in {"l", "L"} -> 21
      [] c \in {"m", "M"} -> 22 [] c \in {"n", "N"} -> 23
      [] c \in {"o", "O"} -> 24 [] c \in {"p", "P"} -> 25
      [] c \in {"q", "Q"} -> 26 [] c \in {"r", "R"} -> 27
      [] c \in {"s", "S"} -> 28 [] c \in {"t", "T"} -> 29
      [] c \in {"u", "U"} -> 30 [] c \in {"v", "V"} -> 31
      [] c \in {"w", "W"} -> 32 [] c \in {"x", "X"} -> 33
      [] c \in {"y", "Y"} -> 34 [] c \in {"z", "Z"} -> 35
      [] OTHER -> -1

\* str::trim_start
RECURSIVE TrimStart(_)
TrimStart(s) ==
    IF Len(s) > 0 /\ IsWhitespace(CharAt(s, 1))
    THEN TrimStart(SubSeq(s, 2, Len(s)))
    ELSE s

\* str::trim_end
RECURSIVE TrimEnd(_)
TrimEnd(s) ==
    IF Len(s) > 0 /\ IsWhitespace(CharAt(s, Len(s)))
    THEN TrimEnd(SubSeq(s, 1, Len(s) - 1))
    ELSE s

\* str::trim
Trim(s) == TrimEnd(TrimStart(s))

\* str::get(a..b): None when the range leaves the string
Get(s, a, b) == IF b <= Len(s) THEN Some(SubSeq(s, a + 1, b)) ELSE None

\* str[a..b] panics exactly when str.get(a..b) is None
InBounds(s, b) == b <= Len(s)
Slice(s, a, b) == SubSeq(s, a + 1, b)

\* s.chars().any(|c| c.is_ascii_alphabetic())
AnyAlphabetic(s) == \E i \in 1..Len(s) : IsAsciiAlphabetic(CharAt(s, i))

\* the digits of an integer literal, most significant first; <<>> is Err
RECURSIVE DigitsValue(_, _, _)
DigitsValue(s, radix, acc) ==
    IF Len(s) = 0 THEN Some(acc)
    ELSE LET d == DigitValue(CharAt(s, 1))
         IN  IF d < 0 \/ d >= radix THEN None
             ELSE DigitsValue(SubSeq(s, 2, Len(s)), radix, acc * radix + d)

\* the sign of from_str_radix applied to the value of the digits
Signed(neg, v) ==
    IF neg /\ IsSome(v) THEN Some(0 - Unwrap(v)) ELSE v

\* core::num from_str_radix: empty, a lone sign, a '-' on an unsigned type
\* (it is taken for a digit) and a non-digit are all Err.  The overflow Err
\* is left out: every integer field of the codecs is at most 5 characters
\* wide, so its value stays below 16^5 (u32) and 10^4 (i16).
FromStrRadix(s, radix, signed) ==
    IF Len(s) = 0 THEN None
    ELSE IF CharAt(s, 1) \in {"+", "-"} /\ Len(s) = 1 THEN None
    ELSE Signed(CharAt(s, 1) = "-" /\ signed,
                DigitsValue(IF CharAt(s, 1) = "+" \/ (CharAt(s, 1) = "-" /\ signed)
                            THEN SubSeq(s, 2, Len(s)) ELSE s,
                            radix, 0))

\* u32::from_str_radix
U32FromStrRadix(s, radix) == FromStrRadix(s, radix, FALSE)
\* str::parse::<u32>
ParseU32(s) == FromStrRadix(s, 10, FALSE)
\* str::parse::<i16>
ParseI16(s) == FromStrRadix(s, 10, TRUE)

\* Result::unwrap_or_default on an integer
UnwrapOrDefault(r) == IF IsSome(r) THEN Unwrap(r) ELSE 0

\* str::parse::<char>: Ok exactly for a one-character string
ParseChar(s) == IF Len(s) = 1 THEN Some(s) ELSE None

\* position of the first '.' of s, 0 when there is none
RECURSIVE FindDot(_, _)
FindDot(s, i) ==
    IF i > Len(s) THEN 0
    ELSE IF CharAt(s, i) = "." THEN i ELSE FindDot(s, i + 1)

\* a decimal value m * 10^-e with trailing fractional zeros removed
RECURSIVE NormDecimal(_, _)
NormDecimal(m, e) ==
    IF e > 0 /\ m % 10 = 0 THEN NormDecimal(m \div 10, e - 1)
    ELSE [m |-> m, e |-> e]

\* 10^n
RECURSIVE Pow10(_)
Pow10(n) == IF n = 0 THEN 1 ELSE 10 * Pow10(n - 1)

\* the decimal with integer digits iv, fraction digits fv and e fraction
\* digits, Err when either run of digits is none
DecimalValue(iv, fv, e) ==
    IF ~IsSome(iv) \/ ~IsSome(fv) THEN None
    ELSE Some(NormDecimal(Unwrap(iv) * Pow10(e) + Unwrap(fv), e))

\* the decimal with integer part ip and fraction part fp: at least one
\* digit is required
DecimalOf(ip, fp) ==
    IF Len(ip) + Len(fp) = 0 THEN None
    ELSE DecimalValue(DigitsValue(ip, 10, 0), DigitsValue(fp, 10, 0), Len(fp))

\* the unsigned literal body, whose first '.' is at dot (0: none)
DecimalAt(body, dot) ==
    DecimalOf(IF dot = 0 THEN body ELSE SubSeq(body, 1, dot - 1),
              IF dot = 0 THEN "" ELSE SubSeq(body, dot + 1, Len(body)))

\* the sign of a parsed literal
SignedDecimal(neg, v) ==
    IF neg /\ IsSome(v) THEN Some([m |-> 0 - Unwrap(v).m, e |-> Unwrap(v).e])
    ELSE v

\* the literal without its sign
Unsigned(s) == IF CharAt(s, 1) \in {"+", "-"} THEN SubSeq(s, 2, Len(s)) ELSE s

\* str::parse::<f32> on plain decimal literals [sign] digits [. digits]
\* with at least one digit; the value is kept as an exact decimal (the
\* rounding to 24 bits of mantissa, exponents, inf and NaN are left out).
ParseF32(s) ==
    IF Len(s) = 0 THEN None
    ELSE SignedDecimal(CharAt(s, 1) = "-",
                       DecimalAt(Unsigned(s), FindDot(Unsigned(s), 1)))

\* Option<String>.filter(|item| !item.is_empty())
NonEmpty(t) == IF Len(t) > 0 THEN Some(t) ELSE None

\* TrimmedNonEmpty without the filter on the empty string
TrimmedNonEmpty_Unfiltered(o) ==
    IF IsSome(o) THEN Some(Trim(Unwrap(o))) ELSE None

\* Option<&str>.map(|s| s.trim().to_string()).filter(|s| !s.is_empty())
TrimmedNonEmpty(o) == IF IsSome(o) THEN NonEmpty(Trim(Unwrap(o))) ELSE None

(***************************************************************************)
(* Field codecs.  A codec returns Ok(record) or panics: the mandatory      *)
(* fields are sliced with str[a..b] and coerced with unwrap().             *)
(***************************************************************************)
Ok(v) == [tag |-> "Ok", val |-> v]
Err(m) == [tag |-> "Err", msg |-> m]
Panic == [tag |-> "Panic"]

\* SerialOf without the base-16 fallback
SerialOf_Decimal(serial) == UnwrapOrDefault(U32FromStrRadix(serial, 10))

\* the serial of AtomRecord::new from the trimmed field: base 16 when any
\* character is an ASCII letter, else base 10, 0 when the parse fails
SerialOf(serial) ==
    UnwrapOrDefault(U32FromStrRadix(serial,
                                    IF AnyAlphabetic(serial) THEN 16 ELSE 10))

\* the serial of AtomRecord::new: from the trimmed bytes [6,11)
AtomSerial(str) == SerialOf(Trim(Slice(str, 6, 11)))

\* AtomRecordOf with the element read from bytes [76,78)
AtomRecordOf_ElementAt76(str, res_seq, x, y, z, occupancy, temp_factor) ==
    IF \/ ~IsSome(res_seq)
       \/ ~IsSome(x) \/ ~IsSome(y) \/ ~IsSome(z)
       \/ ~IsSome(occupancy) \/ ~IsSome(temp_factor)
    THEN Panic
    ELSE Ok([serial      |-> AtomSerial(str),
             name        |-> Trim(Slice(str, 12, 16)),
             alt_loc     |-> ParseChar(Trim(Slice(str, 16, 17))),
             res_name    |-> Trim(Slice(str, 17, 20)),
             chain_id    |-> ParseChar(Trim(Slice(str, 21, 22))),
             res_seq     |-> Unwrap(res_seq),
             i_code      |-> ParseChar(Trim(Slice(str, 26, 27))),
             x           |-> Unwrap(x),
             y           |-> Unwrap(y),
             z           |-> Unwrap(z),
             occupancy   |-> Unwrap(occupancy),
             temp_factor |-> Unwrap(temp_factor),
             entry       |-> TrimmedNonEmpty(Get(str, 72, 76)),
             element     |-> TrimmedNonEmpty(Get(str, 76, 78)),
             charge      |-> TrimmedNonEmpty(Get(str, 78, 80))])

\* the struct AtomRecord::new builds from the line and the parses of its
\* mandatory numeric fields: each unwrap() of a failed parse panics
AtomRecordOf(str, res_seq, x, y, z, occupancy, temp_factor) ==
    IF \/ ~IsSome(res_seq)
       \/ ~IsSome(x) \/ ~IsSome(y) \/ ~IsSome(z)
       \/ ~IsSome(occupancy) \/ ~IsSome(temp_factor)
    THEN Panic
    ELSE Ok([serial      |-> AtomSerial(str),
             name        |-> Trim(Slice(str, 12, 16)),
             alt_loc     |-> ParseChar(Trim(Slice(str, 16, 17))),
             res_name    |-> Trim(Slice(str, 17, 20)),
             chain_id    |-> ParseChar(Trim(Slice(str, 21, 22))),
             res_seq     |-> Unwrap(res_seq),
             i_code      |-> ParseChar(Trim(Slice(str, 26, 27))),
             x           |-> Unwrap(x),
             y           |-> Unwrap(y),
             z           |-> Unwrap(z),
             occupancy   |-> Unwrap(occupancy),
             temp_factor |-> Unwrap(temp_factor),
             entry       |-> TrimmedNonEmpty(Get(str, 72, 76)),
             element     |-> TrimmedNonEmpty(Get(str, 77, 80)),
             charge      |-> TrimmedNonEmpty(Get(str, 78, 80))])

\* AtomRecord::new.  Every str[a..b] of a mandatory field panics when it
\* leaves the line (the last one ends at byte 66).
AtomRecord_new(str) ==
    IF ~InBounds(str, 66) THEN Panic
    ELSE AtomRecordOf(str,
                      ParseI16(Trim(Slice(str, 22, 26))),
                      ParseF32(Trim(Slice(str, 30, 38))),
                      ParseF32(Trim(Slice(str, 38, 46))),
                      ParseF32(Trim(Slice(str, 46, 54))),
                      ParseF32(Trim(Slice(str, 54, 60))),
                      ParseF32(Trim(Slice(str, 60, 66))))

\* ModelRecord::new
ModelRecord_new(str) ==
    IF ~InBounds(str, 14) THEN Panic
    ELSE Ok([serial |-> UnwrapOrDefault(ParseU32(Trim(Slice(str, 10, 14))))])

\* NummdlRecord::new
NummdlRecord_new(str) ==
    IF ~InBounds(str, 14) THEN Panic
    ELSE Ok([count |-> UnwrapOrDefault(ParseU32(Trim(Slice(str, 10, 14))))])

\* ConnectRecord::new that stores the values it finds one after another
ConnectRecord_new_Compact(str) ==
    IF ~InBounds(str, 31) THEN Panic
    ELSE LET slots   == <<ParseU32(Trim(Slice(str, 11, 16))),
                          ParseU32(Trim(Slice(str, 16, 21))),
                          ParseU32(Trim(Slice(str, 21, 26))),
                          ParseU32(Trim(Slice(str, 26, 31)))>>
             present == SelectSeq(slots, IsSome)
         IN  Ok([serial    |-> UnwrapOrDefault(ParseU32(Trim(Slice(str, 6, 11)))),
                 connected |-> present \o [k \in 1..(4 - Len(present)) |-> None]])

\* ConnectRecord::new: the five str[a..b] end at byte 31
ConnectRecord_new(str) ==
    IF ~InBounds(str, 31) THEN Panic
    ELSE Ok([serial    |-> UnwrapOrDefault(ParseU32(Trim(Slice(str, 6, 11)))),
             connected |-> <<ParseU32(Trim(Slice(str, 11, 16))),
                             ParseU32(Trim(Slice(str, 16, 21))),
                             ParseU32(Trim(Slice(str, 21, 26))),
                             ParseU32(Trim(Slice(str, 26, 31)))>>])

\* str::parse::<i32>
ParseI32(s) == FromStrRadix(s, 10, TRUE)

\* Result::unwrap_or_default on an f32: 0.0
UnwrapOrDefaultF32(r) == IF IsSome(r) THEN Unwrap(r) ELSE [m |-> 0, e |-> 0]

\* Option<char>.filter(|item| *item != ' ')
NotBlank(o) == IF IsSome(o) /\ Unwrap(o) # " " THEN o ELSE None

\* TermRecord::new: the four str[a..b] end at byte 26, every coercion has
\* a default, the insertion code is read with get
TermRecord_new(str) ==
    IF ~InBounds(str, 26) THEN Panic
    ELSE Ok([serial   |-> UnwrapOrDefault(ParseU32(Trim(Slice(str, 6, 11)))),
             res_name |-> Trim(Slice(str, 17, 20)),
             chain_id |-> Slice(str, 21, 22),
             res_seq  |-> UnwrapOrDefault(ParseI16(Trim(Slice(str, 22, 26)))),
             i_code   |-> NotBlank(Get(str, 26, 27))])

\* the struct AnisotropicRecord::new builds from the line and the parses
\* of its mandatory fields: each unwrap() of a failed parse panics
AnisotropicRecordOf(str, chain_id, res_seq, u00, u11, u22, u01, u02, u12) ==
    IF \/ ~IsSome(chain_id) \/ ~IsSome(res_seq)
       \/ ~IsSome(u00) \/ ~IsSome(u11) \/ ~IsSome(u22)
       \/ ~IsSome(u01) \/ ~IsSome(u02) \/ ~IsSome(u12)
    THEN Panic
    ELSE Ok([serial   |-> UnwrapOrDefault(ParseU32(Trim(Slice(str, 6, 11)))),
             name     |-> Trim(Slice(str, 12, 16)),
             alt_loc  |-> ParseChar(Trim(Slice(str, 16, 17))),
             res_name |-> Trim(Slice(str, 17, 20)),
             chain_id |-> Unwrap(chain_id),
             res_seq  |-> Unwrap(res_seq),
             i_code   |-> ParseChar(Trim(Slice(str, 26, 27))),
             u00      |-> Unwrap(u00),
             u11      |-> Unwrap(u11),
             u22      |-> Unwrap(u22),
             u01      |-> Unwrap(u01),
             u02      |-> Unwrap(u02),
             u12      |-> Unwrap(u12),
             element  |-> TrimmedNonEmpty(Get(str, 76, 78)),
             charge   |-> TrimmedNonEmpty(Get(str, 78, 80))])

\* AnisotropicRecord::new: the last str[a..b] ends at byte 70
AnisotropicRecord_new(str) ==
    IF ~InBounds(str, 70) THEN Panic
    ELSE AnisotropicRecordOf(str,
                             ParseChar(Trim(Slice(str, 21, 22))),
                             ParseI16(Trim(Slice(str, 22, 26))),
                             ParseI32(Trim(Slice(str, 28, 35))),
                             ParseI32(Trim(Slice(str, 35, 42))),
                             ParseI32(Trim(Slice(str, 42, 49))),
                             ParseI32(Trim(Slice(str, 49, 56))),
                             ParseI32(Trim(Slice(str, 56, 63))),
                             ParseI32(Trim(Slice(str, 63, 70))))

\* CrystalRecord::new with the space group taken untrimmed
CrystalRecord_new_Untrimmed(str) ==
    IF ~InBounds(str, 70) THEN Panic
    ELSE Ok([a           |-> UnwrapOrDefaultF32(ParseF32(Trim(Slice(str, 6, 15)))),
             b           |-> UnwrapOrDefaultF32(ParseF32(Trim(Slice(str, 15, 24)))),
             c           |-> UnwrapOrDefaultF32(ParseF32(Trim(Slice(str, 24, 33)))),
             alpha       |-> UnwrapOrDefaultF32(ParseF32(Trim(Slice(str, 33, 40)))),
             beta        |-> UnwrapOrDefaultF32(ParseF32(Trim(Slice(str, 40, 47)))),
             gamma       |-> UnwrapOrDefaultF32(ParseF32(Trim(Slice(str, 47, 54)))),
             space_group |-> Slice(str, 55, 66),
             z           |-> UnwrapOrDefault(ParseU32(Trim(Slice(str, 66, 70))))])

\* CrystalRecord::new: every coercion has a default, the last str[a..b]
\* ends at byte 70
CrystalRecord_new(str) ==
    IF ~InBounds(str, 70) THEN Panic
    ELSE Ok([a           |-> UnwrapOrDefaultF32(ParseF32(Trim(Slice(str, 6, 15)))),
             b           |-> UnwrapOrDefaultF32(ParseF32(Trim(Slice(str, 15, 24)))),
             c           |-> UnwrapOrDefaultF32(ParseF32(Trim(Slice(str, 24, 33)))),
             alpha       |-> UnwrapOrDefaultF32(ParseF32(Trim(Slice(str, 33, 40)))),
             beta        |-> UnwrapOrDefaultF32(ParseF32(Trim(Slice(str, 40, 47)))),
             gamma       |-> UnwrapOrDefaultF32(ParseF32(Trim(Slice(str, 47, 54)))),
             space_group |-> Trim(Slice(str, 55, 66)),
             z           |-> UnwrapOrDefault(ParseU32(Trim(Slice(str, 66, 70))))])

\* DBType::new with a default kind for the tokens outside the vocabulary
DBType_new_Default(str) ==
    CASE Trim(str) = "GB" -> Ok("GB")
      [] Trim(str) \in {"NORINE", "NOR"} -> Ok("NORINE")
      [] Trim(str) = "PDB" -> Ok("PDB")
      [] OTHER -> Ok("UNP")

\* DBType::new: the match on the trimmed token, a panic in the wildcard arm
DBType_new(str) ==
    CASE Trim(str) = "GB" -> Ok("GB")
      [] Trim(str) \in {"NORINE", "NOR"} -> Ok("NORINE")
      [] Trim(str) = "PDB" -> Ok("PDB")
      [] Trim(str) = "UNP" -> Ok("UNP")
      [] OTHER -> Panic

\* str.chars().nth(i): None past the end of the line
CharsNth(str, i) == IF i < Len(str) THEN Some(CharAt(str, i + 1)) ELSE None

\* the two fields DBRefRecord::new fills for every database kind
DBRefExtra_Always(str, database) ==
    IF ~IsSome(CharsNth(str, 60)) \/ ~IsSome(CharsNth(str, 67))
    THEN Panic
    ELSE Ok([i_dbns_beg |-> CharsNth(str, 60), db_ins_end |-> CharsNth(str, 67)])

\* the two fields DBRefRecord::new fills only `if let DBType::PDB`: each
\* chars().nth(i).unwrap() panics past the end of the line
DBRefExtra(str, database) ==
    IF database # "PDB" THEN Ok([i_dbns_beg |-> None, db_ins_end |-> None])
    ELSE IF ~IsSome(CharsNth(str, 60)) \/ ~IsSome(CharsNth(str, 67))
    THEN Panic
    ELSE Ok([i_dbns_beg |-> CharsNth(str, 60), db_ins_end |-> CharsNth(str, 67)])

\* the struct DBRefRecord::new builds from the line, its database kind,
\* its two conditional fields and the parses of its mandatory numbers
DBRefRecordOf(str, database, extra, seq_begin, seq_end, db_seq_begin, db_seq_end) ==
    IF \/ extra.tag = "Panic"
       \/ ~InBounds(str, 67)
       \/ ~IsSome(seq_begin) \/ ~IsSome(seq_end)
       \/ ~IsSome(db_seq_begin) \/ ~IsSome(db_seq_end)
    THEN Panic
    ELSE Ok([id_code      |-> Trim(Slice(str, 7, 11)),
             chain_id     |-> CharAt(str, 13),
             seq_begin    |-> Unwrap(seq_begin),
             insert_begin |-> ParseChar(Trim(Slice(str, 18, 19))),
             seq_end      |-> Unwrap(seq_end),
             insert_end   |-> ParseChar(Trim(Slice(str, 24, 25))),
             database     |-> database,
             db_accession |-> Trim(Slice(str, 33, 41)),
             db_id_code   |-> Trim(Slice(str, 42, 54)),
             db_seq_begin |-> Unwrap(db_seq_begin),
             i_dbns_beg   |-> extra.val.i_dbns_beg,
             db_seq_end   |-> Unwrap(db_seq_end),
             db_ins_end   |-> extra.val.db_ins_end])

\* DBRefRecord::new after DBType::new returned database
DBRefRecordWith(str, database) ==
    IF database.tag = "Panic" THEN Panic
    ELSE DBRefRecordOf(str, database.val, DBRefExtra(str, database.val),
                       IF InBounds(str, 67) THEN ParseU32(Trim(Slice(str, 14, 18))) ELSE None,
                       IF InBounds(str, 67) THEN ParseU32(Trim(Slice(str, 20, 24))) ELSE None,
                       IF InBounds(str, 67) THEN ParseU32(Trim(Slice(str, 55, 60))) ELSE None,
                       IF InBounds(str, 67) THEN ParseU32(Trim(Slice(str, 62, 67))) ELSE None)

\* DBRefRecord::new: the database kind is read first, from str[26..32]
DBRefRecord_new(str) ==
    IF ~InBounds(str, 32) THEN Panic
    ELSE DBRefRecordWith(str, DBType_new(Slice(str, 26, 32)))

\* the struct HetRecord::new builds from the line and the parses of its
\* mandatory numbers
HetRecordOf(line, seq_num, num_het_atoms) ==
    IF ~IsSome(seq_num) \/ ~IsSome(num_het_atoms) THEN Panic
    ELSE Ok([het_id        |-> Trim(Slice(line, 7, 10)),
             chain_id      |-> CharAt(line, 13),
             seq_num       |-> Unwrap(seq_num),
             i_code        |-> ParseChar(Trim(Slice(line, 17, 18))),
             num_het_atoms |-> Unwrap(num_het_atoms),
             text          |-> TrimmedNonEmpty(Get(line, 31, 71))])

\* HetRecord::new: the last line[a..b] ends at byte 26
HetRecord_new(line) ==
    IF ~InBounds(line, 26) THEN Panic
    ELSE HetRecordOf(line,
                     ParseI32(Trim(Slice(line, 13, 17))),
                     ParseI32(Trim(Slice(line, 21, 26))))

\* HetnamRecord::new: line[11..15] and line[15..] need 15 bytes
HetnamRecord_new(line) ==
    IF ~InBounds(line, 15) THEN Panic
    ELSE Ok([continuation |-> TrimmedNonEmpty(Get(line, 8, 10)),
             het_id       |-> Trim(Slice(line, 11, 15)),
             text         |-> Trim(Slice(line, 15, Len(line)))])

\* char as u16 / as u32: the code point of the characters the sub-number
\* offset of the inputs holds
CharCode(c) ==
    CASE c = " " -> 32
      [] c = "/" -> 47
      [] c \in {"0", "1", "2", "3", "4", "5", "6", "7", "8", "9"} ->
             48 + DigitValue(c)
      [] c = "X" -> 88

\* c as u16 - 48: below '0' the subtraction panics in a build with
\* overflow checks and wraps around 2^16 in a build without them
SubNumberU16(c, checked) ==
    IF CharCode(c) >= 48 THEN Ok(CharCode(c) - 48)
    ELSE IF checked THEN Panic
    ELSE Ok(65536 - (48 - CharCode(c)))

\* c as u32 - 48: as above around 2^32; a wrapped value, at or above 2^31,
\* is held as its two's complement reading v - 2^32
SubNumberU32(c, checked) ==
    IF CharCode(c) >= 48 THEN Ok(CharCode(c) - 48)
    ELSE IF checked THEN Panic
    ELSE Ok(CharCode(c) - 48)

\* OrigxnRecord::new: the sub-number from the character at offset 5, the
\* numbers defaulted, the slices panicking on a line under 55 bytes;
\* checked says whether the build checks integer overflow
OrigxnRecord_new(str, checked) ==
    IF ~InBounds(str, 55) THEN Panic
    ELSE IF SubNumberU16(CharAt(str, 6), checked).tag = "Panic" THEN Panic
    ELSE Ok([n      |-> SubNumberU16(CharAt(str, 6), checked).val,
             origxn |-> <<UnwrapOrDefaultF32(ParseF32(Trim(Slice(str, 10, 20)))),
                          UnwrapOrDefaultF32(ParseF32(Trim(Slice(str, 20, 30)))),
                          UnwrapOrDefaultF32(ParseF32(Trim(Slice(str, 30, 40))))>>,
             tn     |-> UnwrapOrDefaultF32(ParseF32(Trim(Slice(str, 45, 55))))])

\* the variant OrigxN::new wraps the record in: its match on record.n
OrigxNOf(record) ==
    IF record.tag = "Panic" THEN Panic
    ELSE IF record.val.n \in {1, 2, 3}
    THEN Ok([sub |-> record.val.n, rec |-> record.val])
    ELSE Panic

\* OrigxN::new
OrigxN_new(str, checked) == OrigxNOf(OrigxnRecord_new(str, checked))

\* ScalenRecord::new: as OrigxnRecord::new
ScalenRecord_new(str, checked) ==
    IF ~InBounds(str, 55) THEN Panic
    ELSE IF SubNumberU16(CharAt(str, 6), checked).tag = "Panic" THEN Panic
    ELSE Ok([n      |-> SubNumberU16(CharAt(str, 6), checked).val,
             scalen |-> <<UnwrapOrDefaultF32(ParseF32(Trim(Slice(str, 10, 20)))),
                          UnwrapOrDefaultF32(ParseF32(Trim(Slice(str, 20, 30)))),
                          UnwrapOrDefaultF32(ParseF32(Trim(Slice(str, 30, 40))))>>,
             un     |-> UnwrapOrDefaultF32(ParseF32(Trim(Slice(str, 45, 55))))])

\* ScaleN::new whose match takes the first variant whatever record.n is
ScaleNOf_First(record) ==
    IF record.tag = "Panic" THEN Panic
    ELSE Ok([sub |-> 1, rec |-> record.val])

\* the variant ScaleN::new wraps the record in: its match on record.n
ScaleNOf(record) ==
    IF record.tag = "Panic" THEN Panic
    ELSE IF record.val.n \in {1, 2, 3}
    THEN Ok([sub |-> record.val.n, rec |-> record.val])
    ELSE Panic

\* ScaleN::new
ScaleN_new(str, checked) == ScaleNOf(ScalenRecord_new(str, checked))

\* the fields of a MtrixnRecord; every number is unwrapped
MtrixnRecordOf(n, serial_number, m1, m2, m3, vn, i_given) ==
    IF n.tag = "Panic" \/ ~IsSome(serial_number) \/ ~IsSome(m1)
          \/ ~IsSome(m2) \/ ~IsSome(m3) \/ ~IsSome(vn) \/ ~IsSome(i_given)
    THEN Panic
    ELSE Ok([n             |-> n.val,
             serial_number |-> Unwrap(serial_number),
             matrix        |-> <<Unwrap(m1), Unwrap(m2), Unwrap(m3)>>,
             vn            |-> Unwrap(vn),
             i_given       |-> Unwrap(i_given) = "1"])

\* MtrixnRecord::from: the slices reach byte 55 and chars().nth(59) byte 60
MtrixnRecord_from(str, checked) ==
    IF ~InBounds(str, 55) THEN Panic
    ELSE MtrixnRecordOf(SubNumberU32(CharAt(str, 6), checked),
                        ParseU32(Trim(Slice(str, 7, 10))),
                        ParseF32(Trim(Slice(str, 10, 20))),
                        ParseF32(Trim(Slice(str, 20, 30))),
                        ParseF32(Trim(Slice(str, 30, 40))),
                        ParseF32(Trim(Slice(str, 45, 55))),
                        CharsNth(str, 59))

\* the variant MtrixN::new wraps the record in: its match on record.n
MtrixNOf(record) ==
    IF record.tag = "Panic" THEN Panic
    ELSE IF record.val.n \in {1, 2, 3}
    THEN Ok([sub |-> record.val.n, rec |-> record.val])
    ELSE Panic

\* MtrixN::new
MtrixN_new(str, checked) == MtrixNOf(MtrixnRecord_from(str, checked))

(***************************************************************************)
(* Record classifier.                                                      *)
(***************************************************************************)
\* the arms of the match in Record::try_from: the variant of Record each
\* 6-byte tag is routed to, "Unknown" for the wildcard arm
Variant(item) ==
    CASE item = "ANISOU" -> "Anisou"
      [] item = "ATOM  " -> "Atom"
      [] item = "CONECT" -> "Connect"
      [] item = "CRYST1" -> "Crystal"
      [] item = "DBREF " -> "DBRef"
      [] item = "ENDMDL" -> "Endmdl"
      [] item = "HETATM" -> "Hetatm"
      [] item = "HET   " -> "Het"
      [] item = "HETNAM" -> "Hetnam"
      [] item \in {"MTRIX1", "MTRIX2", "MTRIX3"} -> "MtrixN"
      [] item = "MODEL " -> "Model"
      [] item = "MODRES" -> "Modres"
      [] item = "NUMMDL" -> "Nummdl"
      [] item \in {"ORIGX1", "ORIGX2", "ORIGX3"} -> "OrigxN"
      [] item \in {"SCALE1", "SCALE2", "SCALE3"} -> "ScaleN"
      [] item = "SEQRES" -> "Seqres"
      [] item = "TER   " -> "Term"
      [] OTHER -> "Unknown"

\* the codec call of an arm of Record::try_from (the arms whose codecs
\* the inputs of this model exercise); a sub-numbered arm is taken only
\* with 1, 2 or 3 at offset 5, where overflow checks decide nothing
Codec(variant, line) ==
    CASE variant \in {"Atom", "Hetatm"} -> AtomRecord_new(line)
      [] variant = "Connect" -> ConnectRecord_new(line)
      [] variant = "Endmdl" -> Ok(<<>>)
      [] variant = "Model" -> ModelRecord_new(line)
      [] variant = "Nummdl" -> NummdlRecord_new(line)
      [] variant = "Term" -> TermRecord_new(line)
      [] variant = "Anisou" -> AnisotropicRecord_new(line)
      [] variant = "Crystal" -> CrystalRecord_new(line)
      [] variant = "DBRef" -> DBRefRecord_new(line)
      [] variant = "Het" -> HetRecord_new(line)
      [] variant = "Hetnam" -> HetnamRecord_new(line)
      [] variant = "OrigxN" -> OrigxN_new(line, TRUE)
      [] variant = "ScaleN" -> ScaleN_new(line, TRUE)
      [] variant = "MtrixN" -> MtrixN_new(line, TRUE)

\* MatchItem with one failure for every line it has no arm for
MatchItem_OneFailure(item) ==
    IF ~IsSome(item) THEN Err("Unknown record type")
    ELSE IF Variant(Unwrap(item)) = "Unknown" THEN Err("Unknown record type")
    ELSE [tag |-> "Codec", variant |-> Variant(Unwrap(item))]

\* the outer match of Record::try_from on line.get(0..6)
MatchItem(item) ==
    IF ~IsSome(item) THEN Err("Unable to parse line")
    ELSE IF Variant(Unwrap(item)) = "Unknown" THEN Err("Unknown record type")
    ELSE [tag |-> "Codec", variant |-> Variant(Unwrap(item))]

\* Classify matching the tag of the line with its trailing blanks removed
Classify_Trimmed(line) == MatchItem(Get(TrimEnd(line), 0, 6))

\* the arm Record::try_from takes for a line: the variant whose codec it
\* invokes, or the Err it reports
Classify(line) == MatchItem(Get(line, 0, 6))

\* Ok(Record::V(..)) around the value of a codec; its panic goes through
Wrap(variant, r) ==
    IF r.tag = "Panic" THEN Panic ELSE Ok([kind |-> variant, rec |-> r.val])

\* Dispatch unwrapped by its caller: an Err becomes a panic
Dispatch_Unwrap(arm, line) ==
    IF arm.tag = "Err" THEN Panic ELSE Wrap(arm.variant, Codec(arm.variant, line))

\* the arm of Record::try_from applied to the line
Dispatch(arm, line) ==
    IF arm.tag = "Err" THEN arm ELSE Wrap(arm.variant, Codec(arm.variant, line))

\* Record::try_from: Ok(Record::V(codec(line))), an Err, or the codec's panic
Record_try_from(line) == Dispatch(Classify(line), line)

(***************************************************************************)
(* Parsing drivers.                                                        *)
(***************************************************************************)
\* AssignSerial that does not move the counter to a declared serial
AssignSerial_NoRebaseline(atom, last) ==
    IF atom.serial = 0
    THEN [atom |-> [atom EXCEPT !.serial = last + 1], last |-> last + 1]
    ELSE [atom |-> atom, last |-> last]

\* AssignSerial that renumbers every atom
AssignSerial_Renumber(atom, last) ==
    [atom |-> [atom EXCEPT !.serial = last + 1], last |-> last + 1]

\* AssignSerial that moves a declared serial one up
AssignSerial_Bump(atom, last) ==
    IF atom.serial = 0
    THEN [atom |-> [atom EXCEPT !.serial = last + 1], last |-> last + 1]
    ELSE [atom |-> [atom EXCEPT !.serial = atom.serial + 1],
          last |-> atom.serial + 1]

\* the serial backfill of both drivers on one Atom record: a zero serial
\* becomes last + 1, a nonzero serial becomes the new value of last
AssignSerial(atom, last) ==
    IF atom.serial = 0
    THEN [atom |-> [atom EXCEPT !.serial = last + 1], last |-> last + 1]
    ELSE [atom |-> atom, last |-> atom.serial]

\* Some(Record::Atom(atom)) with the counter after the backfill
SomeAtom(a) ==
    [tag |-> "Some", val |-> [kind |-> "Atom", rec |-> a.atom], last |-> a.last]

\* the `if let Ok(Record::Atom(mut atom)) = record` of pdbreader_single
SingleMatch(record, last) ==
    IF record.tag = "Panic" THEN [tag |-> "Panic", last |-> last]
    ELSE IF record.tag = "Ok" /\ record.val.kind = "Atom"
         THEN SomeAtom(AssignSerial(record.val.rec, last))
         ELSE [tag |-> "None", last |-> last]

\* the filter_map closure of pdbreader_single on one line, with the
\* captured counter: None, Some(record) or a panic, and the counter after
SingleClosure(line, last) ==
    IF Len(line) < 6 THEN [tag |-> "None", last |-> last]
    ELSE SingleMatch(Record_try_from(line), last)

\* Result::ok on the result of Record::try_from; a panic goes through
ResultOk(record) ==
    IF record.tag = "Panic" THEN [tag |-> "Panic"]
    ELSE IF record.tag = "Ok" THEN [tag |-> "Some", val |-> record.val]
    ELSE [tag |-> "None"]

\* the filter_map closure of pdbreader_parallel on one line
ParallelClosure(line) ==
    IF Len(line) < 6 THEN [tag |-> "None"]
    ELSE ResultOk(Record_try_from(line))

\* the record and the counter after the backfill of a record of kind kind
Rewritten(kind, a) ==
    [record |-> [kind |-> kind, rec |-> a.atom], last |-> a.last]

\* NormalizeRecord that also backfills Hetatm records
NormalizeRecord_AtomKinds(record, last) ==
    IF record.kind \in {"Atom", "Hetatm"}
    THEN Rewritten(record.kind, AssignSerial(record.rec, last))
    ELSE [record |-> record, last |-> last]

\* NormalizeRecord that counts the records that are no Atom
NormalizeRecord_CountAll(record, last) ==
    IF record.kind = "Atom"
    THEN Rewritten("Atom", AssignSerial(record.rec, last))
    ELSE [record |-> record, last |-> last + 1]

\* the body of the iter_mut loop of pdbreader_parallel on one record
NormalizeRecord(record, last) ==
    IF record.kind = "Atom"
    THEN Rewritten("Atom", AssignSerial(record.rec, last))
    ELSE [record |-> record, last |-> last]

\* CollectIndices in the reverse of the input order
RECURSIVE CollectIndices_Reversed(_, _)
CollectIndices_Reversed(slots, i) ==
    IF i > Len(slots) THEN <<>>
    ELSE IF slots[i].tag = "Some"
         THEN CollectIndices_Reversed(slots, i + 1) \o <<i>>
         ELSE CollectIndices_Reversed(slots, i + 1)

\* the indices, in increasing order from i on, of the slots holding Some
RECURSIVE CollectIndices(_, _)
CollectIndices(slots, i) ==
    IF i > Len(slots) THEN <<>>
    ELSE IF slots[i].tag = "Some" THEN <<i>> \o CollectIndices(slots, i + 1)
    ELSE CollectIndices(slots, i + 1)

\* rayon's collect of an indexed parallel iterator: the Some results in
\* the order of the input items
Collect(slots) ==
    LET idx == CollectIndices(slots, 1)
    IN  [k \in 1..Len(idx) |-> slots[idx[k]].val]

\* pdbreader_single as a function of the lines of its input
RECURSIVE SingleFrom(_, _, _, _)
SingleFrom(ls, i, last, out) ==
    IF i > Len(ls) THEN [status |-> "done", out |-> out]
    ELSE LET r == SingleClosure(ls[i], last)
         IN  IF r.tag = "Panic" THEN [status |-> "panicked", out |-> <<>>]
             ELSE SingleFrom(ls, i + 1, r.last,
                             IF r.tag = "Some" THEN Append(out, r.val) ELSE out)

pdbreader_single(ls) == SingleFrom(ls, 1, 0, <<>>)

\* the iter_mut loop of pdbreader_parallel from record j on
RECURSIVE NormalizeFrom(_, _, _)
NormalizeFrom(record, j, last) ==
    IF j > Len(record) THEN record
    ELSE LET n == NormalizeRecord(record[j], last)
         IN  NormalizeFrom([record EXCEPT ![j] = n.record], j + 1, n.last)

\* pdbreader_parallel as a function of the lines of its input
pdbreader_parallel(ls) ==
    LET slots == [i \in 1..Len(ls) |-> ParallelClosure(ls[i])]
    IN  IF \E i \in 1..Len(ls) : slots[i].tag = "Panic"
        THEN [status |-> "panicked", out |-> <<>>]
        ELSE [status |-> "done", out |-> NormalizeFrom(Collect(slots), 1, 0)]

(***************************************************************************)
(* Input lines.                                                            *)
(***************************************************************************)
\* columns [11,80) of a well-formed ATOM/HETATM line
AtomTail == "  N   ALA A   1      20.154  16.967  27.462  1.00 11.18           N  "
\* the same with a malformed x field
BadXTail == "  N   ALA A   1      2x.154  16.967  27.462  1.00 11.18           N  "

\* the lines input texts of the general specification are made of
LineSet ==
    { "ATOM  " \o "    5" \o AtomTail,
      "ATOM  " \o "     " \o AtomTail,
      "HETATM" \o "     " \o AtomTail,
      "ATOM  " \o "    1" \o BadXTail,
      "ATOM  ",
      "ENDMDL",
      "MODEL        1",
      "END",
      "FOOBAR    1" }

\* the lines input texts of the serial-backfill specification are made of
AtomLineSet ==
    { "ATOM  " \o "    5" \o AtomTail,
      "ATOM  " \o "     " \o AtomTail,
      "ATOM  " \o "   20" \o AtomTail }

\* the texts of at most n lines over a set of lines
Texts(S, n) == UNION { [1..k -> S] : k \in 0..n }

(***************************************************************************)
(* State.                                                                  *)
(***************************************************************************)
VARIABLES
    lines,      \* contents.lines(): the input text, as its lines
    s_status,   \* pdbreader_single: "running", "done" or "panicked"
    s_i,        \* pdbreader_single: the line the iterator is at
    s_last,     \* pdbreader_single: the counter last
    s_out,      \* pdbreader_single: the records collected so far
    s_src,      \* history: the line each record of s_out was decoded from
    p_status,   \* pdbreader_parallel: "idle", "decoding", "normalizing",
                \* "done" or "panicked"
    p_slot,     \* pdbreader_parallel: the result of each line's closure
    p_record,   \* pdbreader_parallel: the vector record
    p_src,      \* history: the line each record of p_record was decoded from
    p_j,        \* pdbreader_parallel: the record the iter_mut loop is at
    p_last,     \* pdbreader_parallel: the counter last
    c_a,        \* codec specifications: the line handed to Record::try_from
    c_b,        \* codec specifications: a second line with the same tag
    c_ra,       \* codec specifications: what Record::try_from did with c_a
    c_rb        \* codec specifications: what Record::try_from did with c_b

vars == <<lines, s_status, s_i, s_last, s_out, s_src,
          p_status, p_slot, p_record, p_src, p_j, p_last,
          c_a, c_b, c_ra, c_rb>>
s_vars == <<s_status, s_i, s_last, s_out, s_src>>
p_vars == <<p_status, p_slot, p_record, p_src, p_j, p_last>>
c_vars == <<c_a, c_b, c_ra, c_rb>>

Idle == [tag |-> "Idle"]

\* both drivers about to be called on the text ls
Start(ls) ==
    /\ c_a = "" /\ c_b = "" /\ c_ra = Idle /\ c_rb = Idle
    /\ lines = ls
    /\ s_status = "running" /\ s_i = 1 /\ s_last = 0
    /\ s_out = <<>> /\ s_src = <<>>
    /\ p_status = "idle" /\ p_slot = <<>> /\ p_record = <<>>
    /\ p_src = <<>> /\ p_j = 1 /\ p_last = 0

Init == \E ls \in Texts(LineSet, MaxLines) : Start(ls)

InitNorm == \E ls \in Texts(AtomLineSet, MaxAtoms) : Start(ls)

(***************************************************************************)
(* pdbreader_single: one action per line the iterator yields.              *)
(***************************************************************************)
SingleStep ==
    /\ s_status = "running"
    /\ s_i <= Len(lines)
    /\ LET r == SingleClosure(lines[s_i], s_last)
       IN  IF r.tag = "Panic"
           THEN /\ s_status' = "panicked"
                /\ UNCHANGED <<s_i, s_last, s_out, s_src>>
           ELSE /\ s_i' = s_i + 1
                /\ s_last' = r.last
                /\ s_out' = IF r.tag = "Some" THEN Append(s_out, r.val) ELSE s_out
                /\ s_src' = IF r.tag = "Some" THEN Append(s_src, s_i) ELSE s_src
                /\ UNCHANGED s_status
    /\ UNCHANGED <<lines, p_vars, c_vars>>

\* collect() returns once the lines are exhausted
SingleReturn ==
    /\ s_status = "running"
    /\ s_i > Len(lines)
    /\ s_status' = "done"
    /\ UNCHANGED <<lines, s_i, s_last, s_out, s_src, p_vars, c_vars>>

(***************************************************************************)
(* pdbreader_parallel.  The second driver is called on the same text once  *)
(* the call of the first one is over.                                      *)
(***************************************************************************)
\* let lines: Vec<&str> = contents.lines().collect()
ParStart ==
    /\ s_status # "running"
    /\ p_status = "idle"
    /\ p_status' = "decoding"
    /\ p_slot' = [i \in 1..Len(lines) |-> [tag |-> "Pending"]]
    /\ UNCHANGED <<lines, c_vars, s_vars, p_record, p_src, p_j, p_last>>

\* ParDecode whose tasks number the atoms from a counter they share
ParDecode_SharedCounter ==
    /\ p_status = "decoding"
    /\ \E i \in 1..Len(lines) :
          /\ p_slot[i].tag = "Pending"
          /\ LET t == ParallelClosure(lines[i])
             IN  IF t.tag = "Some"
                 THEN LET n == NormalizeRecord(t.val, p_last)
                      IN  /\ p_slot' = [p_slot EXCEPT
                                            ![i] = [t EXCEPT !.val = n.record]]
                          /\ p_last' = n.last
                 ELSE /\ p_slot' = [p_slot EXCEPT ![i] = t]
                      /\ p_last' = p_last
    /\ UNCHANGED <<lines, c_vars, s_vars, p_status, p_record, p_src, p_j>>

\* a worker runs the closure on one line; the lines are taken in any order
ParDecode ==
    /\ p_status = "decoding"
    /\ \E i \in 1..Len(lines) :
          /\ p_slot[i].tag = "Pending"
          /\ p_slot' = [p_slot EXCEPT ![i] = ParallelClosure(lines[i])]
    /\ UNCHANGED <<lines, c_vars, s_vars, p_status, p_record, p_src, p_j, p_last>>

\* ParCollect that hands the vector to the loop while lines are undecoded
ParCollect_Early ==
    /\ p_status = "decoding"
    /\ p_status' = "normalizing"
    /\ p_record' = Collect(p_slot)
    /\ p_src' = CollectIndices(p_slot, 1)
    /\ p_j' = 1
    /\ p_last' = 0
    /\ UNCHANGED <<lines, c_vars, s_vars, p_slot>>

\* collect(): the panic of a closure is propagated to the caller, else the
\* results are put together in line order; then `let mut last = 0`
ParCollect ==
    /\ p_status = "decoding"
    /\ \/ \A i \in 1..Len(lines) : p_slot[i].tag # "Pending"
       \/ \E i \in 1..Len(lines) : p_slot[i].tag = "Panic"
    /\ IF \E i \in 1..Len(lines) : p_slot[i].tag = "Panic"
       THEN /\ p_status' = "panicked"
            /\ UNCHANGED <<p_record, p_src, p_j, p_last>>
       ELSE /\ p_status' = "normalizing"
            /\ p_record' = Collect(p_slot)
            /\ p_src' = CollectIndices(p_slot, 1)
            /\ p_j' = 1
            /\ p_last' = 0
    /\ UNCHANGED <<lines, c_vars, s_vars, p_slot>>

\* one iteration of `for atom in record.iter_mut()`
ParNormalize ==
    /\ p_status = "normalizing"
    /\ p_j <= Len(p_record)
    /\ LET n == NormalizeRecord(p_record[p_j], p_last)
       IN  /\ p_record' = [p_record EXCEPT ![p_j] = n.record]
           /\ p_last' = n.last
    /\ p_j' = p_j + 1
    /\ UNCHANGED <<lines, c_vars, s_vars, p_status, p_slot, p_src>>

\* the loop is over and record is returned
ParReturn ==
    /\ p_status = "normalizing"
    /\ p_j > Len(p_record)
    /\ p_status' = "done"
    /\ UNCHANGED <<lines, c_vars, s_vars, p_slot, p_record, p_src, p_j, p_last>>

(***************************************************************************)
(* Record::try_from on single lines.                                       *)
(***************************************************************************)
\* the strings of at most n characters over the alphabet A
RECURSIVE Strings(_, _)
Strings(A, n) ==
    IF n = 0 THEN {""}
    ELSE LET P == Strings(A, n - 1)
         IN  P \cup {q \o c : q \in P, c \in A}

\* the characters the serial fields are made of
SerialAlphabet == {" ", "0", "7", "a", "F", "x", "-"}

\* the contents of bytes [6,11) of the ATOM lines that are decoded
SerialFields ==
    {c1 \o c2 \o c3 \o c4 \o c5 :
        c1 \in SerialAlphabet, c2 \in SerialAlphabet, c3 \in SerialAlphabet,
        c4 \in SerialAlphabet, c5 \in SerialAlphabet}
    \cup {"186a0", "  123", "   +7", "  +a ", "    +", "  7 0", "99999", "fffff"}

InitSerial ==
    /\ \E f \in SerialFields : c_a = "ATOM  " \o f \o AtomTail
    /\ c_b = "" /\ c_ra = Idle /\ c_rb = Idle
    /\ lines = <<>>
    /\ s_status = "running" /\ s_i = 1 /\ s_last = 0
    /\ s_out = <<>> /\ s_src = <<>>
    /\ p_status = "idle" /\ p_slot = <<>> /\ p_record = <<>>
    /\ p_src = <<>> /\ p_j = 1 /\ p_last = 0

\* Record::try_from(c_a)
DecodeLine ==
    /\ c_ra = Idle
    /\ c_ra' = Record_try_from(c_a)
    /\ UNCHANGED <<lines, s_vars, p_vars, c_a, c_b, c_rb>>

NextSerial == DecodeLine

SpecSerial == InitSerial /\ [][NextSerial]_vars

\* the 6-byte prefixes of the lines that are classified: the tags of the
\* match, and strings that are no tag
TagSet ==
    { "ANISOU", "ATOM  ", "CONECT", "CRYST1", "DBREF ", "ENDMDL", "HETATM",
      "HET   ", "HETNAM", "MTRIX1", "MTRIX2", "MTRIX3", "MODEL ", "MODRES",
      "NUMMDL", "ORIGX1", "ORIGX2", "ORIGX3", "SCALE1", "SCALE2", "SCALE3",
      "SEQRES", "TER   ",
      "FOOBAR", "SEQADV", "ATOM 1", "atom  ", " ATOM ", "MTRIX4", "TER", "" }

\* the characters the bytes after the tag are made of
TailAlphabet == {" ", "1"}

InitClassify ==
    /\ \E t \in TagSet, ta \in Strings(TailAlphabet, MaxTail),
          tb \in Strings(TailAlphabet, MaxTail) :
          /\ c_a = t \o ta
          /\ c_b = t \o tb
    /\ c_ra = Idle /\ c_rb = Idle
    /\ lines = <<>>
    /\ s_status = "running" /\ s_i = 1 /\ s_last = 0
    /\ s_out = <<>> /\ s_src = <<>>
    /\ p_status = "idle" /\ p_slot = <<>> /\ p_record = <<>>
    /\ p_src = <<>> /\ p_j = 1 /\ p_last = 0

\* the match of Record::try_from on c_a and on c_b
ClassifyPair ==
    /\ c_ra = Idle
    /\ c_ra' = Classify(c_a)
    /\ c_rb' = Classify(c_b)
    /\ UNCHANGED <<lines, s_vars, p_vars, c_a, c_b>>

NextClassify == ClassifyPair

SpecClassify == InitClassify /\ [][NextClassify]_vars

(***************************************************************************)
(* Record::try_from on lines of the other record kinds.                    *)
(***************************************************************************)
\* n spaces
RECURSIVE Spaces(_)
Spaces(n) == IF n <= 0 THEN "" ELSE " " \o Spaces(n - 1)

\* a line as the fixed-width files carry it: filled with spaces to w columns
PadRight(s, w) == s \o Spaces(w - Len(s))

\* the contents of a 5-byte slot of a CONECT line
SlotFields == {"  412", "  414", "     ", " 41 2", "   -1", "  4a ", "   +7"}

\* CONECT lines: the four slots filled from SlotFields, the line of the
\* codec's test with and without its padding, and that line cut at every
\* length from the tag on
ConnectLines ==
    {"CONECT  413" \o s1 \o s2 \o s3 \o s4 :
        s1 \in SlotFields, s2 \in SlotFields, s3 \in SlotFields, s4 \in SlotFields}
    \cup {PadRight("CONECT  413  412  414", 80), "CONECT  413  412  414"}
    \cup {SubSeq(PadRight("CONECT  413  412  414", 31), 1, n) : n \in 6..31}

\* bytes [0,66) of an ATOM line with the given altLoc and iCode bytes
AtomCore(alt, ic) ==
    "ATOM  " \o "    1" \o SubSeq(AtomTail, 1, 5) \o alt
             \o SubSeq(AtomTail, 7, 15) \o ic \o SubSeq(AtomTail, 17, 55)

\* what follows byte 66 of an ATOM or ANISOU line: nothing, blanks, and
\* entry, element and charge columns present, blank or cut off
OptionalTails ==
    {"", "      ", "          ", "      1ABC", "      1ABC N", "            ",
     "      1ABC N  ", "              ", "      1ABC N1+", "            1+",
     "           N  ", "      1ABC    "}

\* ATOM lines whose mandatory fields decode, and two whose do not
AtomOptionLines ==
    {AtomCore(alt, ic) \o t : alt \in {" ", "A"}, ic \in {" ", "B"}, t \in OptionalTails}
    \cup {"ATOM  " \o "    1" \o BadXTail,
          "ATOM  " \o "    1" \o SubSeq(AtomTail, 1, 11) \o "  x1"
                   \o SubSeq(AtomTail, 16, 69)}

\* TER lines: the residue number and the bytes from the insertion code on
TermLines ==
    {"TER     297      ALA A" \o rs \o t :
        rs \in {"  18", "    ", " x8 ", "  -3"},
        t \in {"", " ", "A", "A  ", Spaces(54), "A" \o Spaces(53)}}
    \cup {"TER   ", "TER     297      ALA A"}

\* bytes [0,70) of the ANISOU line of the codec's test, with a chain byte
AnisouCore(chain) ==
    "ANISOU    1  N   MET " \o chain
        \o "   1      688   1234    806    -19    -49    178"

\* ANISOU lines: the trailing columns present, blank or cut off
AnisouLines ==
    {AnisouCore(ch) \o t : ch \in {"A", " "}, t \in OptionalTails}

\* the line of parse_crystal_line_test, without its padding
CrystalExample ==
    "CRYST1   52.000   58.600   61.900  90.00  90.00  90.00 P 21 21 21    8"

\* a CRYST1 line whose numeric fields fill their column ranges
CrystalDense ==
    "CRYST1123.45678234.56789345.67891101.123102.234103.345 P 1        1234"

\* CRYST1 lines: the line of the codec's test with and without padding, a
\* line whose fields fill their columns, and lines with a field that is
\* no number
CrystalLines ==
    {CrystalExample,
     PadRight(CrystalExample, 80),
     CrystalDense,
     "CRYST1   5x.000   58.600   61.900  90.00  90.00  90.00 P 21 21 21    8",
     "CRYST1   52.000   58.600   61.900  90.00         90.00 P 21 21 21    8",
     "CRYST1   52.000   58.600   61.900  90.00  90.00  90.00 P 21 21 21     ",
     "CRYST1   52.000   58.600   61.900  90.00  90.00  90.00 P 21 21 21"}

\* the contents of bytes [26,32) of a DBREF line
DatabaseTokens ==
    {"GB    ", "NORINE", "NOR   ", "PDB   ", "UNP   ", "   PDB", " GB   ",
     "  UNP ", "pdb   ", "      ", "PD B  ", "UNPX  ", "EMBL  ", "NORIN ",
     "GBX   ", "Unp   "}

\* DBREF lines: the database token, the byte at 60 and what follows
\* db_seq_end, and a line whose seq_begin is no number
DBRefLines ==
    {"DBREF  2JHQ A    1   226  " \o tok \o " Q9KPK8   UNG_VIBCH        1"
        \o ins \o "   226" \o end :
        tok \in DatabaseTokens, ins \in {" ", "A"}, end \in {"", " ", "B", "B  "}}
    \cup {"DBREF  2JHQ A    x   226  UNP    Q9KPK8   UNG_VIBCH        1    226",
          "DBREF  2JHQ A    1   226  UNP"}

\* HET lines: the lines of the codec's test, and lines that reach byte 71
\* with the text columns blank or filled
HetLines ==
    {"HET    UDP  A1457      25                     ",
     "HET    UNK  A 161       1     ",
     PadRight("HET    UDP  A1457      25", 71),
     PadRight("HET    UDP  A1457      25", 80),
     PadRight("HET    UDP  A1457      25     URIDINE", 71),
     PadRight("HET    UDP  A1457      25     URIDINE", 80),
     "HET    UDP  A1457      25     URIDINE",
     "HET    UDP  A  x7      25",
     "HET    UDP  A1457"}

\* HETNAM lines: the continuation columns blank, filled and half filled
HetnamLines ==
    {"HETNAM     NAG N-ACETYL-D-GLUCOSAMINE",
     "HETNAM  2  SAD DINUCLEOTIDE",
     "HETNAM 12  SAD DINUCLEOTIDE",
     "HETNAM  3 SAD  DINUCLEOTIDE",
     "HETNAM     NAG ",
     "HETNAM     NAG",
     "HETNAM    "}

\* ORIGXn lines: the line of the codec's test for n = 1, 2, 3, and lines
\* with a component that is no number
OrigxLines ==
    {"ORIGX" \o n \o "      0.963457  0.136613  0.230424       16.61000" \o t :
        n \in {"1", "2", "3"}, t \in {"", Spaces(25)}}
    \cup {"ORIGX1      0.9x3457  0.136613  0.230424       16.61000",
          "ORIGX2      0.963457  0.136613  0.230424               ",
          "ORIGX3      0.963457  0.136613  0.230424"}

\* SEQADV lines: the lines of the codec's test
SeqadvLines ==
    {"SEQADV 3ABC MET A   -1  UNP  P10725              EXPRESSION TAG",
     "SEQADV 3ABC GLY A   50  UNP  P10725    VAL    50 ENGINEERED",
     "SEQADV 2OKW LEU A   64  NOR  NOR00669  PHE    14 SEE REMARK 999"}

\* the lines Record::try_from is applied to
CodecLines ==
    ConnectLines \cup AtomOptionLines \cup TermLines \cup AnisouLines
    \cup CrystalLines \cup DBRefLines \cup HetLines \cup HetnamLines
    \cup OrigxLines \cup SeqadvLines

InitCodec ==
    /\ c_a \in CodecLines
    /\ c_b = "" /\ c_ra = Idle /\ c_rb = Idle
    /\ lines = <<>>
    /\ s_status = "running" /\ s_i = 1 /\ s_last = 0
    /\ s_out = <<>> /\ s_src = <<>>
    /\ p_status = "idle" /\ p_slot = <<>> /\ p_record = <<>>
    /\ p_src = <<>> /\ p_j = 1 /\ p_last = 0

\* Record::try_from(c_a) on a line of CodecLines
DecodeRecord ==
    /\ c_ra = Idle
    /\ c_ra' = Record_try_from(c_a)
    /\ UNCHANGED <<lines, s_vars, p_vars, c_a, c_b, c_rb>>

NextCodec == DecodeRecord

SpecCodec == InitCodec /\ [][NextCodec]_vars

(***************************************************************************)
(* Display of the model records and Record::try_from on what it writes.    *)
(***************************************************************************)
\* u32 Display: the decimal digits of n
RECURSIVE DecimalString(_)
DecimalString(n) ==
    IF n < 10 THEN CharAt("0123456789", n + 1)
    ELSE DecimalString(n \div 10) \o CharAt("0123456789", (n % 10) + 1)

\* "{:>w$}": s after the spaces that fill it to w columns, s itself when
\* it is wider
PadLeft(s, w) == Spaces(w - Len(s)) \o s

\* Display for ModelRecord with the number in 5 columns
ModelRecord_fmt_Width5(r) ==
    PadRight("MODEL     " \o PadLeft(DecimalString(r.serial), 5), 80)

\* Display for ModelRecord
ModelRecord_fmt(r) ==
    PadRight("MODEL     " \o PadLeft(DecimalString(r.serial), 4), 80)

\* Display for NummdlRecord
NummdlRecord_fmt(r) ==
    PadRight("NUMMDL    " \o PadLeft(DecimalString(r.count), 4), 80)

\* the Display of the record inside a Record::Model or Record::Nummdl
Record_fmt(record) ==
    IF record.kind = "Model" THEN ModelRecord_fmt(record.rec)
    ELSE NummdlRecord_fmt(record.rec)

\* the model and model-count records with a number up to MaxNumber
ModelRecords ==
    {[kind |-> "Model", rec |-> [serial |-> n]] : n \in 0..MaxNumber}
    \cup {[kind |-> "Nummdl", rec |-> [count |-> n]] : n \in 0..MaxNumber}

InitDisplay ==
    /\ \E r \in ModelRecords : c_rb = Ok(r)
    /\ c_a = "" /\ c_b = "" /\ c_ra = Idle
    /\ lines = <<>>
    /\ s_status = "running" /\ s_i = 1 /\ s_last = 0
    /\ s_out = <<>> /\ s_src = <<>>
    /\ p_status = "idle" /\ p_slot = <<>> /\ p_record = <<>>
    /\ p_src = <<>> /\ p_j = 1 /\ p_last = 0

\* format!("{}", record) of the record in c_rb
Render ==
    /\ c_a = ""
    /\ c_a' = Record_fmt(c_rb.val)
    /\ UNCHANGED <<lines, s_vars, p_vars, c_b, c_ra, c_rb>>

\* Record::try_from on the rendered line
DecodeRendered ==
    /\ c_a # "" /\ c_ra = Idle
    /\ c_ra' = Record_try_from(c_a)
    /\ UNCHANGED <<lines, s_vars, p_vars, c_a, c_b, c_rb>>

NextDisplay == Render \/ DecodeRendered

SpecDisplay == InitDisplay /\ [][NextDisplay]_vars

(***************************************************************************)
(* The sub-numbered families called on their own and through the           *)
(* classifier.                                                             *)
(***************************************************************************)
\* the characters at offset 5
SubNumberChars == {"1", "2", "3", "0", "4", "9", " ", "/", "X"}

\* the bytes from offset 6 on: a full matrix row, one without the iGiven
\* flag, one with an unreadable number, an empty one
SubNumberBodies ==
    { "   1 -1.000000  0.000000  0.000000        0.00000    1",
      "   1  0.963457  0.136613  0.230424       16.61000",
      "   1  0.9x3457  0.136613  0.230424       16.61000    1",
      "" }

SubNumberLines ==
    {f \o n \o b : f \in {"MTRIX", "ORIGX", "SCALE"}, n \in SubNumberChars,
                   b \in SubNumberBodies}

InitSubNumber ==
    /\ c_a \in SubNumberLines
    /\ c_b = "" /\ c_ra = Idle /\ c_rb = Idle
    /\ lines = <<>>
    /\ s_status = "running" /\ s_i = 1 /\ s_last = 0
    /\ s_out = <<>> /\ s_src = <<>>
    /\ p_status = "idle" /\ p_slot = <<>> /\ p_record = <<>>
    /\ p_src = <<>> /\ p_j = 1 /\ p_last = 0

\* MtrixN::from, OrigxN::from or ScaleN::from of the family of the line
SubNumbered_from(str, checked) ==
    CASE SubSeq(str, 1, 5) = "MTRIX" -> MtrixN_new(str, checked)
      [] SubSeq(str, 1, 5) = "ORIGX" -> OrigxN_new(str, checked)
      [] SubSeq(str, 1, 5) = "SCALE" -> ScaleN_new(str, checked)

\* a caller's MtrixN::from(c_a), OrigxN::from(c_a) or ScaleN::from(c_a),
\* in a build with or without overflow checks
DecodeSubNumbered ==
    /\ c_ra = Idle
    /\ \E checked \in BOOLEAN : c_ra' = SubNumbered_from(c_a, checked)
    /\ UNCHANGED <<lines, s_vars, p_vars, c_a, c_b, c_rb>>

\* Record::try_from(c_a)
DecodeRouted ==
    /\ c_rb = Idle
    /\ c_rb' = Record_try_from(c_a)
    /\ UNCHANGED <<lines, s_vars, p_vars, c_a, c_b, c_ra>>

NextSubNumber == DecodeSubNumbered \/ DecodeRouted

SpecSubNumber == InitSubNumber /\ [][NextSubNumber]_vars

Next ==
    \/ SingleStep
    \/ SingleReturn
    \/ ParStart
    \/ ParDecode
    \/ ParCollect
    \/ ParNormalize
    \/ ParReturn

Spec == Init /\ [][Next]_vars

SpecNorm == InitNorm /\ [][Next]_vars

\* atom lines whose declared serials meet the serials the counter hands
\* out: none declared, 1, 2 and 5
DeclaredLineSet ==
    { "ATOM  " \o "     " \o AtomTail,
      "ATOM  " \o "    1" \o AtomTail,
      "ATOM  " \o "    2" \o AtomTail,
      "ATOM  " \o "    5" \o AtomTail }

InitDeclared == \E ls \in Texts(DeclaredLineSet, MaxLines) : Start(ls)

SpecDeclared == InitDeclared /\ [][Next]_vars

(***************************************************************************)
(* Properties of the drivers.                                              *)
(***************************************************************************)
\* what Record::try_from returns for each line of the catalogues
DecodeTable == [l \in LineSet \cup AtomLineSet |-> Record_try_from(l)]

\* the record Record::try_from decodes from line i of the input
Decoded(i) == DecodeTable[lines[i]].val

AtomKinds == {"Atom", "Hetatm"}

\* the serial of the nearest Atom record before position k, 0 if none
PrevSerial(out, k) ==
    LET S == {j \in 1..(k - 1) : out[j].kind = "Atom"}
    IN  IF S = {} THEN 0
        ELSE out[CHOOSE j \in S : \A h \in S : h <= j].rec.serial

\* the serials of the Atom records of a record sequence, in order
RECURSIVE AtomSerials(_)
AtomSerials(out) ==
    IF Len(out) = 0 THEN <<>>
    ELSE IF Head(out).kind = "Atom"
         THEN <<Head(out).rec.serial>> \o AtomSerials(Tail(out))
         ELSE AtomSerials(Tail(out))

\* the Atom records 1..n of out, decoded from the lines src, carry the
\* declared serial when it is nonzero and the predecessor's serial + 1
\* when it is zero
Backfilled(out, src, n) ==
    \A k \in 1..n :
        out[k].kind = "Atom" =>
            out[k].rec.serial =
                IF AtomSerial(lines[src[k]]) = 0
                THEN PrevSerial(out, k) + 1
                ELSE AtomSerial(lines[src[k]])

\* the text with declared atom serials 5, 0, 0, 20, 0
ExampleText ==
    << "ATOM  " \o "    5" \o AtomTail,
       "ATOM  " \o "     " \o AtomTail,
       "ATOM  " \o "     " \o AtomTail,
       "ATOM  " \o "   20" \o AtomTail,
       "ATOM  " \o "     " \o AtomTail >>

\* C1: for every input text the sequential and the concurrent strategy
\* return equal record sequences (same length, kinds, order and fields).
C1_StrategiesEqual ==
    (s_status = "done" /\ p_status = "done") => s_out = p_record

C3_NoZeroSerial ==
    /\ s_status = "done" =>
          \A k \in 1..Len(s_out) :
              s_out[k].kind \in AtomKinds => s_out[k].rec.serial # 0
    /\ p_status = "done" =>
          \A k \in 1..Len(p_record) :
              p_record[k].kind \in AtomKinds => p_record[k].rec.serial # 0

\* a record of the output against the record decoded from its line: only
\* the serial of an Atom decoded with serial 0 may differ
OnlyZeroSerialRewritten(r, d) ==
    IF d.kind = "Atom" /\ d.rec.serial = 0
    THEN r.kind = "Atom" /\ [r.rec EXCEPT !.serial = 0] = d.rec
    ELSE r = d

\* C4: the backfill changes nothing but the serial of Atom records decoded
\* with serial 0: nonzero serials, all other fields and all non-atom
\* records are as Record::try_from decoded them.
C4_NormalizerFrame ==
    /\ \A k \in 1..Len(s_out) :
          OnlyZeroSerialRewritten(s_out[k], Decoded(s_src[k]))
    /\ \A k \in 1..Len(p_record) :
          OnlyZeroSerialRewritten(p_record[k], Decoded(p_src[k]))

C4_Witness ==
    /\ p_status = "done" /\ s_status = "done"
    /\ \E k \in 1..Len(p_record) : p_record[k].kind \notin AtomKinds
    /\ \E k \in 1..Len(p_record) :
          /\ p_record[k].kind = "Atom"
          /\ Decoded(p_src[k]).rec.serial = 0
          /\ p_record[k].rec.serial # 0
    /\ \E k \in 1..Len(p_record) :
          /\ p_record[k].kind = "Atom"
          /\ Decoded(p_src[k]).rec.serial # 0
    /\ \E k \in 1..Len(s_out) : Decoded(s_src[k]).rec.serial = 0

\* the line numbers of a record sequence are strictly increasing
Increasing(src) ==
    \A a \in 1..Len(src) : \A b \in 1..Len(src) : a < b => src[a] < src[b]

\* the lines Record::try_from decodes to a record
DecodedLines == {i \in 1..Len(lines) : DecodeTable[lines[i]].tag = "Ok"}

IsBadLine(l) == Len(l) < 6 \/ Variant(SubSeq(l, 1, 6)) = "Unknown"
WithoutBadLines(ls) == SelectSeq(ls, LAMBDA l : ~IsBadLine(l))

\* the outcome of the two calls, once they are over
SingleOutcome == [status |-> s_status, out |-> s_out]
ParallelOutcome == [status |-> p_status, out |-> p_record]

\* C6: lines shorter than 6 bytes and lines with an unknown tag produce no
\* record and no fatal error: each call ends as it does on the text
\* without these lines, with the same records.
C6_BadLinesVanish ==
    /\ \A k \in 1..Len(s_src) : ~IsBadLine(lines[s_src[k]])
    /\ \A k \in 1..Len(p_src) : ~IsBadLine(lines[p_src[k]])
    /\ s_status = "done" =>
          SingleOutcome = pdbreader_single(WithoutBadLines(lines))
    /\ s_status = "panicked" =>
          pdbreader_single(WithoutBadLines(lines)).status = "panicked"
    /\ p_status = "done" =>
          ParallelOutcome = pdbreader_parallel(WithoutBadLines(lines))
    /\ p_status = "panicked" =>
          pdbreader_parallel(WithoutBadLines(lines)).status = "panicked"

C6_Witness ==
    /\ \E i \in 1..Len(lines) : Len(lines[i]) < 6
    /\ \E i \in 1..Len(lines) :
          Len(lines[i]) >= 6 /\ Variant(SubSeq(lines[i], 1, 6)) = "Unknown"
    /\ s_status = "done" /\ p_status = "done"
    /\ Len(p_record) = 1 /\ Len(s_out) = 1

\* a line with a recognized tag whose codec fails on a mandatory field
IsMalformed(l) == Len(l) >= 6 /\ Record_try_from(l).tag = "Panic"
WithoutMalformed(ls) == SelectSeq(ls, LAMBDA l : ~IsMalformed(l))

\* C7: a recognized line with a mandatory field out of bounds or failing
\* coercion is dropped alone: each call returns normally with the records
\* of the other lines.
C7_MalformedLineDropped ==
    /\ s_status # "running" =>
          SingleOutcome = pdbreader_single(WithoutMalformed(lines))
    /\ p_status \in {"done", "panicked"} =>
          ParallelOutcome = pdbreader_parallel(WithoutMalformed(lines))

\* C8: pdbreader_single returns only Atom records, and they are the Atom
\* records of pdbreader_parallel's output for the same text, in the same
\* order and with the same serials.
C8_SingleIsAtomsOfParallel ==
    /\ \A k \in 1..Len(s_out) : s_out[k].kind = "Atom"
    /\ (s_status = "done" /\ p_status = "done") =>
          s_out = SelectSeq(p_record, LAMBDA r : r.kind = "Atom")

C8_Witness ==
    /\ s_status = "done" /\ p_status = "done"
    /\ Len(s_out) >= 2
    /\ Len(p_record) > Len(s_out)
    /\ \E k \in 1..Len(s_out) : Decoded(s_src[k]).rec.serial = 0

(***************************************************************************)
(* Properties of Record::try_from.                                         *)
(***************************************************************************)
\* the value of a digit character, by its place in the digit strings
PlaceOf(c, digits) == (CHOOSE i \in 1..Len(digits) : CharAt(digits, i) = c) - 1
HexLower == "0123456789abcdef"
HexUpper == "0123456789ABCDEF"
IsHexChar(c) ==
    \E i \in 1..16 : c = CharAt(HexLower, i) \/ c = CharAt(HexUpper, i)
IsDecChar(c) == \E i \in 1..10 : c = CharAt(HexLower, i)
HexCharValue(c) ==
    IF \E i \in 1..16 : c = CharAt(HexLower, i)
    THEN PlaceOf(c, HexLower) ELSE PlaceOf(c, HexUpper)

\* the number a string of digits denotes in base r, by place value
RECURSIVE PlaceValue(_, _)
PlaceValue(t, r) ==
    IF Len(t) = 0 THEN 0
    ELSE PlaceValue(SubSeq(t, 1, Len(t) - 1), r) * r
         + HexCharValue(CharAt(t, Len(t)))

\* the serial a field of bytes [6,11) stands for: base 16 when it holds a
\* letter, base 10 otherwise (a leading '+' is part of a number), 0 when
\* it is no number in that base
SerialOfField(f) ==
    LET t      == Trim(f)
        body   == IF Len(t) > 1 /\ CharAt(t, 1) = "+" THEN SubSeq(t, 2, Len(t))
                  ELSE t
        letter == \E i \in 1..Len(t) : IsAsciiAlphabetic(CharAt(t, i))
    IN  IF Len(body) = 0 THEN 0
        ELSE IF letter
        THEN IF \A i \in 1..Len(body) : IsHexChar(CharAt(body, i))
             THEN PlaceValue(body, 16) ELSE 0
        ELSE IF \A i \in 1..Len(body) : IsDecChar(CharAt(body, i))
             THEN PlaceValue(body, 10) ELSE 0

\* C9: the atom serial is decoded from the trimmed bytes [6,11), in base 16
\* if the field holds an ASCII letter and in base 10 otherwise; a field
\* that is no number in that base gives serial 0 and the line still
\* decodes; "186a0" gives 100000 and "  123" gives 123.
C9_SerialRadix ==
    c_ra # Idle =>
        /\ c_ra.tag = "Ok"
        /\ c_ra.val.kind = "Atom"
        /\ c_ra.val.rec.serial = SerialOfField(SubSeq(c_a, 7, 11))
        /\ SubSeq(c_a, 7, 11) = "186a0" => c_ra.val.rec.serial = 100000
        /\ SubSeq(c_a, 7, 11) = "  123" => c_ra.val.rec.serial = 123
        /\ SubSeq(c_a, 7, 11) \in {"     ", "  -7 ", "  x  ", " 7 0 "} =>
              c_ra.val.rec.serial = 0

C9_Witness ==
    /\ c_ra # Idle
    /\ SubSeq(c_a, 7, 11) = "186a0"
    /\ c_ra.tag = "Ok"
    /\ c_ra.val.rec.serial = 100000

\* C10: classification depends only on the first 6 bytes: two lines of at
\* least 6 bytes with the same first 6 bytes are routed to the same codec
\* or get the same unrecognized-kind failure.
C10_TagDeterminesCodec ==
    (c_ra # Idle /\ Len(c_a) >= 6 /\ Len(c_b) >= 6
        /\ SubSeq(c_a, 1, 6) = SubSeq(c_b, 1, 6)) => c_ra = c_rb

C10_Witness ==
    /\ c_ra # Idle
    /\ Len(c_a) = 6 /\ Len(c_b) > 6 /\ CharAt(c_b, 7) # " "
    /\ c_ra.tag = "Codec" /\ c_rb.tag = "Codec"

(***************************************************************************)
(* Properties of the field codecs.                                         *)
(***************************************************************************)
\* the record kind whose codec a line is routed to, "" when there is none
KindOf(line) ==
    IF Classify(line).tag = "Codec" THEN Classify(line).variant ELSE ""

\* the unsigned decimal number the trimmed bytes of a field denote, by
\* place value; None when they denote none (one leading '+' is part of a
\* number)
UnsignedOfField(f) ==
    LET t    == Trim(f)
        body == IF Len(t) > 1 /\ CharAt(t, 1) = "+" THEN SubSeq(t, 2, Len(t))
                ELSE t
    IN  IF Len(body) > 0 /\ \A i \in 1..Len(body) : IsDecChar(CharAt(body, i))
        THEN Some(PlaceValue(body, 10)) ELSE None

\* the bytes [a,b) of the line are in bounds and coerce to a number
Coerces(line, a, b) ==
    Len(line) >= b /\ IsSome(ParseF32(Trim(Slice(line, a, b))))

\* every mandatory field of an ATOM line is in bounds and coerces
AtomMandatoryDecode(line) ==
    /\ Len(line) >= 66
    /\ IsSome(ParseI16(Trim(Slice(line, 22, 26))))
    /\ Coerces(line, 30, 38) /\ Coerces(line, 38, 46) /\ Coerces(line, 46, 54)
    /\ Coerces(line, 54, 60) /\ Coerces(line, 60, 66)

\* every mandatory field of a CONECT, TER, ATOM or HETATM line is in
\* bounds and coerces
MandatoryDecode(line) ==
    CASE KindOf(line) = "Connect" -> Len(line) >= 11
      [] KindOf(line) = "Term" -> Len(line) >= 26
      [] KindOf(line) \in {"Atom", "Hetatm"} -> AtomMandatoryDecode(line)
      [] OTHER -> FALSE

\* the bytes [a,b) of the line hold no text: cut off by the end of the
\* line, or blank
NoText(line, a, b) == Len(line) < b \/ Trim(Slice(line, a, b)) = ""

\* the bytes [a,b) of the line hold no unsigned number
NoNumber(line, a, b) ==
    Len(line) < b \/ ~IsSome(UnsignedOfField(Slice(line, a, b)))

\* the optional fields of rec whose columns hold no value are absent
OptionalAbsent(line, rec) ==
    CASE KindOf(line) = "Connect" ->
           \A k \in 1..4 :
              NoNumber(line, 6 + 5 * k, 11 + 5 * k) => rec.connected[k] = None
      [] KindOf(line) = "Term" ->
           NoText(line, 26, 27) => rec.i_code = None
      [] KindOf(line) \in {"Atom", "Hetatm"} ->
           /\ NoText(line, 16, 17) => rec.alt_loc = None
           /\ NoText(line, 26, 27) => rec.i_code = None
           /\ NoText(line, 72, 76) => rec.entry = None
           /\ NoText(line, 77, 80) => rec.element = None
           /\ NoText(line, 78, 80) => rec.charge = None

\* C11: optional fields never make a line fail: when every mandatory field
\* of a CONECT, TER, ATOM or HETATM line is in bounds and coerces, the
\* codec returns a record whatever the optional columns hold (blank,
\* malformed, or cut off by the end of the line), and each optional field
\* whose columns hold no value is absent.
C11_OptionalNeverFails ==
    (c_ra # Idle /\ MandatoryDecode(c_a)) =>
        /\ c_ra.tag = "Ok"
        /\ OptionalAbsent(c_a, c_ra.val.rec)

\* some field of the line at the column ranges fs fails coercion to f32
SomeFails(line, fs) == \E f \in fs : ~Coerces(line, f[1], f[2])

\* a numeric field of the line that is neither a serial nor a residue
\* count is in bounds and fails coercion: a coordinate, occupancy,
\* temperature factor or residue number of an ATOM line, a cell length or
\* angle, a component of a coordinate transform, the residue number of a
\* TER line
GeometryFieldFails(line) ==
    CASE KindOf(line) \in {"Atom", "Hetatm"} ->
           Len(line) >= 66 /\ ~AtomMandatoryDecode(line)
      [] KindOf(line) = "Crystal" ->
           /\ Len(line) >= 70
           /\ SomeFails(line, {<<6, 15>>, <<15, 24>>, <<24, 33>>,
                               <<33, 40>>, <<40, 47>>, <<47, 54>>})
      [] KindOf(line) = "OrigxN" ->
           /\ Len(line) >= 55
           /\ SomeFails(line, {<<10, 20>>, <<20, 30>>, <<30, 40>>, <<45, 55>>})
      [] KindOf(line) = "Term" ->
           Len(line) >= 26 /\ ~IsSome(ParseI16(Trim(Slice(line, 22, 26))))
      [] OTHER -> FALSE

\* C12: a numeric field that fails coercion defaults to 0 only when it is
\* a serial or a residue count; when a coordinate, occupancy, temperature
\* factor, cell length or angle, matrix or translation component or
\* residue sequence number fails coercion the line fails: no record (with
\* a substituted 0) is produced.
C12_NoSubstitutedZero ==
    (c_ra # Idle /\ GeometryFieldFails(c_a)) => c_ra.tag # "Ok"

\* the optional text fields of a record kind, each with its column range
TextFields(kind) ==
    CASE kind = "Anisou" -> {<<"element", 76, 78>>, <<"charge", 78, 80>>}
      [] kind \in {"Atom", "Hetatm"} ->
           {<<"entry", 72, 76>>, <<"element", 77, 80>>, <<"charge", 78, 80>>}
      [] kind = "Het" -> {<<"text", 31, 71>>}
      [] kind = "Hetnam" -> {<<"continuation", 8, 10>>}
      [] OTHER -> {}

\* C13: an optional text field is never the empty string, and it is absent
\* when its column range is blank after trimming: element and charge of an
\* ANISOU line with blank columns [76,78) and [78,80), entry, element and
\* charge of an ATOM line, the text of a HET line, the continuation of a
\* HETNAM line.
C13_BlankTextAbsent ==
    (c_ra # Idle /\ c_ra.tag = "Ok") =>
        \A f \in TextFields(c_ra.val.kind) :
            /\ c_ra.val.rec[f[1]] # Some("")
            /\ (Len(c_a) >= f[3] /\ Trim(Slice(c_a, f[2], f[3])) = "")
                  => c_ra.val.rec[f[1]] = None

C13_Witness ==
    /\ c_ra # Idle /\ c_ra.tag = "Ok" /\ c_ra.val.kind = "Anisou"
    /\ Len(c_a) = 80 /\ Trim(Slice(c_a, 76, 80)) = ""
    /\ c_ra.val.rec.element = None /\ c_ra.val.rec.charge = None

\* C14: a DBREF record has its two extra single-character fields,
\* i_dbns_beg (the byte at 60) and db_ins_end (the byte at 67), present if
\* and only if its database kind is PDB; for GB, NORINE and UNP both are
\* absent.
C14_ExtraFieldsIffPDB ==
    (c_ra # Idle /\ c_ra.tag = "Ok" /\ c_ra.val.kind = "DBRef") =>
        /\ c_ra.val.rec.database \in {"GB", "NORINE", "PDB", "UNP"}
        /\ IsSome(c_ra.val.rec.i_dbns_beg) <=> c_ra.val.rec.database = "PDB"
        /\ IsSome(c_ra.val.rec.db_ins_end) <=> c_ra.val.rec.database = "PDB"
        /\ c_ra.val.rec.database = "PDB" =>
              /\ c_ra.val.rec.i_dbns_beg = Some(SubSeq(c_a, 61, 61))
              /\ c_ra.val.rec.db_ins_end = Some(SubSeq(c_a, 68, 68))

C14_Witness ==
    /\ c_ra # Idle /\ c_ra.tag = "Ok" /\ c_ra.val.kind = "DBRef"
    /\ c_ra.val.rec.database = "PDB"
    /\ c_ra.val.rec.i_dbns_beg = Some("A")
    /\ c_ra.val.rec.db_ins_end = Some("B")

\* the database kind of a trimmed token of the fixed vocabulary, "" for a
\* token outside it
KindOfToken(t) ==
    CASE t = "GB" -> "GB"
      [] t = "NORINE" -> "NORINE"
      [] t = "NOR" -> "NORINE"
      [] t = "PDB" -> "PDB"
      [] t = "UNP" -> "UNP"
      [] OTHER -> ""

\* C15: the source-database field, bytes [26,32) of a DBREF line, is
\* decoded by exact match of its trimmed token: "GB" gives GB, "NORINE"
\* and the alias "NOR" give NORINE, "PDB" gives PDB, "UNP" gives UNP; any
\* other token is a hard failure of the line: no record, no default kind.
C15_DatabaseVocabulary ==
    (c_ra # Idle /\ KindOf(c_a) = "DBRef" /\ Len(c_a) >= 32) =>
        IF KindOfToken(Trim(SubSeq(c_a, 27, 32))) = ""
        THEN c_ra.tag # "Ok"
        ELSE /\ c_ra.tag = "Ok" =>
                  c_ra.val.rec.database = KindOfToken(Trim(SubSeq(c_a, 27, 32)))
             /\ (Len(c_a) >= 68 /\ SubSeq(c_a, 15, 18) = "   1") =>
                  c_ra.tag = "Ok"

C15_Witness ==
    /\ c_ra # Idle /\ KindOf(c_a) = "DBRef" /\ Len(c_a) >= 32
    /\ SubSeq(c_a, 27, 32) = "NOR   "
    /\ c_ra.tag = "Ok" /\ c_ra.val.rec.database = "NORINE"

\* C16: a CONECT record has its serial from bytes [6,11) and its four
\* connected entries from the 5-byte slots starting at 11, 16, 21 and 26,
\* each slot by itself: entry k holds the decimal value of slot k when the
\* trimmed bytes of the slot are an unsigned integer and is absent
\* otherwise, and no value moves into an earlier slot; "CONECT  413  412
\* 414" padded to 80 columns gives serial 413 and [412, 414, absent,
\* absent].
C16_ConnectSlots ==
    (c_ra # Idle /\ KindOf(c_a) = "Connect") =>
        /\ Len(c_a) >= 31 => c_ra.tag = "Ok"
        /\ c_ra.tag = "Ok" =>
              /\ c_ra.val.rec.serial =
                    UnwrapOrDefault(UnsignedOfField(SubSeq(c_a, 7, 11)))
              /\ \A k \in 1..4 :
                    c_ra.val.rec.connected[k] =
                        UnsignedOfField(SubSeq(c_a, 7 + 5 * k, 11 + 5 * k))
        /\ c_a = PadRight("CONECT  413  412  414", 80) =>
              /\ c_ra.val.rec.serial = 413
              /\ c_ra.val.rec.connected = <<Some(412), Some(414), None, None>>
        /\ c_a = "CONECT  413" \o "     " \o "  412" \o "     " \o "  414" =>
              c_ra.val.rec.connected = <<None, Some(412), None, Some(414)>>

C16_Witness ==
    /\ c_ra # Idle /\ c_ra.tag = "Ok"
    /\ c_a = "CONECT  413" \o "     " \o "  412" \o "  4a " \o "   +7"
    /\ c_ra.val.rec.connected = <<None, Some(412), None, Some(7)>>

\* C17: the CRYST1 codec slices a [6,15), b [15,24), c [24,33), alpha
\* [33,40), beta [40,47), gamma [47,54), spaceGroup [55,66) and z [66,70):
\* the example line, padded or not, decodes to a = 52.0, b = 58.6,
\* c = 61.9, alpha = beta = gamma = 90.0, spaceGroup "P 21 21 21" (inner
\* spaces kept, outer ones trimmed) and z = 8, and a line whose fields
\* fill their columns decodes to the number in each column range.
C17_CrystalLayout ==
    (c_ra # Idle /\ KindOf(c_a) = "Crystal") =>
        /\ c_a \in {CrystalExample, PadRight(CrystalExample, 80)} =>
              c_ra = Ok([kind |-> "Crystal",
                         rec  |-> [a     |-> [m |-> 52, e |-> 0],
                                   b     |-> [m |-> 586, e |-> 1],
                                   c     |-> [m |-> 619, e |-> 1],
                                   alpha |-> [m |-> 90, e |-> 0],
                                   beta  |-> [m |-> 90, e |-> 0],
                                   gamma |-> [m |-> 90, e |-> 0],
                                   space_group |-> "P 21 21 21",
                                   z     |-> 8]])
        /\ c_a = CrystalDense =>
              c_ra = Ok([kind |-> "Crystal",
                         rec  |-> [a     |-> [m |-> 12345678, e |-> 5],
                                   b     |-> [m |-> 23456789, e |-> 5],
                                   c     |-> [m |-> 34567891, e |-> 5],
                                   alpha |-> [m |-> 101123, e |-> 3],
                                   beta  |-> [m |-> 102234, e |-> 3],
                                   gamma |-> [m |-> 103345, e |-> 3],
                                   space_group |-> "P 1",
                                   z     |-> 1234]])

C17_Witness ==
    /\ c_ra # Idle /\ c_a = CrystalExample /\ c_ra.tag = "Ok"
    /\ c_ra.val.rec.b = [m |-> 586, e |-> 1]
    /\ c_ra.val.rec.space_group = "P 21 21 21"
    /\ c_ra.val.rec.z = 8

(***************************************************************************)
(* Properties of the fixed-width rendering.                                *)
(***************************************************************************)
\* the number of the record that is rendered
NumberOf(record) ==
    IF record.kind = "Model" THEN record.rec.serial ELSE record.rec.count

\* the tag a record kind is written with
TagOf(kind) == IF kind = "Model" THEN "MODEL " ELSE "NUMMDL"

\* C18: the fixed-width rendering of a model-boundary or model-count
\* record is exactly 80 characters: the tag, the number right-aligned in
\* columns [10,14), then spaces; and for every number in 0..=9999 decoding
\* the rendering returns a record with the same number:
\* decode(display(r)) = r.
C18_DisplayRoundTrip ==
    (c_a # "" /\ NumberOf(c_rb.val) <= 9999) =>
        /\ Len(c_a) = 80
        /\ SubSeq(c_a, 1, 10) = TagOf(c_rb.val.kind) \o "    "
        /\ SubSeq(c_a, 14, 14) # " "
        /\ UnsignedOfField(SubSeq(c_a, 11, 14)) = Some(NumberOf(c_rb.val))
        /\ \A i \in 15..80 : SubSeq(c_a, i, i) = " "
        /\ c_ra # Idle => c_ra = c_rb

C18_Witness ==
    /\ c_ra # Idle /\ c_a # ""
    /\ c_rb.val = [kind |-> "Model", rec |-> [serial |-> 9999]]
    /\ SubSeq(c_a, 1, 14) = "MODEL     9999"
    /\ c_ra = c_rb

\* C19: every record kind of Record is reachable through the classifier;
\* in particular a well-formed line tagged "SEQADV" yields a Seqadv record
\* and not an unrecognized-kind failure.
C19_SeqadvReachable ==
    (c_ra # Idle /\ c_a \in SeqadvLines) =>
        /\ c_ra # Err("Unknown record type")
        /\ c_ra.tag = "Ok"
        /\ c_ra.val.kind = "Seqadv"

(***************************************************************************)
(* The serials and the lines that are no atom lines.                       *)
(***************************************************************************)
\* a line with the tag of an atom record
IsAtomLine(l) == Len(l) >= 6 /\ SubSeq(l, 1, 6) \in {"ATOM  ", "HETATM"}

\* the text without its non-atom records, short lines and unknown tags
OnlyAtomLines(ls) == SelectSeq(ls, IsAtomLine)

\* the serials of the Atom and Hetatm records of a record sequence, in
\* order
RECURSIVE AtomKindSerials(_)
AtomKindSerials(out) ==
    IF Len(out) = 0 THEN <<>>
    ELSE IF Head(out).kind \in AtomKinds
         THEN <<Head(out).rec.serial>> \o AtomKindSerials(Tail(out))
         ELSE AtomKindSerials(Tail(out))

\* C20: the serials the normalizer assigns depend only on the ordered
\* subsequence of atom records: with non-atom records, lines shorter than
\* 6 bytes and lines with unrecognized tags inserted anywhere, every atom
\* of the output has the serial it has in the output for the atom lines
\* alone.
C20_SerialsIgnoreOtherLines ==
    /\ s_status = "done" =>
          AtomKindSerials(s_out) =
              AtomKindSerials(pdbreader_single(OnlyAtomLines(lines)).out)
    /\ p_status = "done" =>
          AtomKindSerials(p_record) =
              AtomKindSerials(pdbreader_parallel(OnlyAtomLines(lines)).out)

C20_Witness ==
    /\ Len(lines) = 3 /\ lines[2] = "MODEL        1"
    /\ s_status = "done" /\ p_status = "done"
    /\ Len(p_record) = 3
    /\ AtomKindSerials(p_record) = <<5, 6>>
    /\ AtomKindSerials(s_out) = <<5, 6>>

(***************************************************************************)
(* The phases of pdbreader_parallel.                                       *)
(***************************************************************************)
\* C21: in the concurrent strategy the serial pass runs once, in one
\* thread, and starts only when every line has been decoded and the
\* results stand in line order: it starts from the collected vector with
\* the counter at 0, it visits the records one after another, no decode
\* task writes a result while or after the counter is updated, and once
\* the vector is returned neither it nor the counter changes again.
C21_NormalizeOnceAfterDecode ==
    [][ /\ (p_status # "normalizing" /\ p_status' = "normalizing") =>
              /\ \A i \in 1..Len(lines) : p_slot[i].tag \in {"Some", "None"}
              /\ p_record' = Collect(p_slot)
              /\ Increasing(p_src')
              /\ p_last' = 0 /\ p_j' = 1
        /\ (p_last' # p_last \/ p_record' # p_record) =>
              p_status' = "normalizing"
        /\ p_status \in {"normalizing", "done"} =>
              /\ p_slot' = p_slot
              /\ p_status' \in {"normalizing", "done"}
        /\ (p_status = "normalizing" /\ p_status' = "normalizing") =>
              p_j' = p_j + 1
        /\ p_status = "done" =>
              /\ p_record' = p_record /\ p_last' = p_last /\ p_j' = p_j
    ]_vars

C21_Witness ==
    /\ p_status = "normalizing" /\ p_j = 3 /\ p_last = 6
    /\ Len(lines) = 3 /\ Len(p_record) = 2
    /\ \A i \in 1..Len(lines) : p_slot[i].tag \in {"Some", "None"}

(***************************************************************************)
(* Scheduling of the decode tasks.                                         *)
(***************************************************************************)
\* What one decode task leaves for a line, read from the line alone.
TaskResult(line) ==
    IF Len(line) < 6 THEN [tag |-> "None"]
    ELSE IF DecodeTable[line].tag = "Panic" THEN [tag |-> "Panic"]
    ELSE IF DecodeTable[line].tag = "Ok"
         THEN [tag |-> "Some", val |-> DecodeTable[line].val]
    ELSE [tag |-> "None"]

\* The records of ls[i..] decoded one line after another in line order,
\* atoms numbered after the counter value last.
RECURSIVE InLineOrder(_, _, _)
InLineOrder(ls, i, last) ==
    IF i > Len(ls) THEN <<>>
    ELSE LET t == TaskResult(ls[i])
         IN  IF t.tag # "Some" THEN InLineOrder(ls, i + 1, last)
             ELSE IF t.val.kind # "Atom"
                  THEN <<t.val>> \o InLineOrder(ls, i + 1, last)
             ELSE IF t.val.rec.serial # 0
                  THEN <<t.val>> \o InLineOrder(ls, i + 1, t.val.rec.serial)
             ELSE <<[t.val EXCEPT !.rec.serial = last + 1]>>
                      \o InLineOrder(ls, i + 1, last + 1)

\* C22: the output of pdbreader_parallel is the same for every scheduling
\* of the decode tasks: whichever lines have been decoded so far and in
\* whatever order, the result left for a line is the one its own bytes
\* give, and the returned sequence is the one a decode in line order
\* returns; the call panics exactly when some line's decode panics.
C22_ScheduleIndependent ==
    /\ \A i \in 1..Len(p_slot) :
          p_slot[i].tag # "Pending" => p_slot[i] = TaskResult(lines[i])
    /\ p_status = "done" => p_record = InLineOrder(lines, 1, 0)
    /\ p_status \in {"normalizing", "done"} =>
          \A i \in 1..Len(lines) : TaskResult(lines[i]).tag # "Panic"
    /\ p_status = "panicked" =>
          \E i \in 1..Len(lines) : TaskResult(lines[i]).tag = "Panic"

\* The last line was decoded first and the first line last.
C22_Witness ==
    /\ Len(lines) = 3 /\ p_status = "decoding"
    /\ p_slot[1].tag = "Pending" /\ p_slot[2].tag = "Pending"
    /\ p_slot[3].tag = "Some"
    /\ p_slot[3].val.kind = "Atom" /\ p_slot[3].val.rec.serial = 0
    /\ TaskResult(lines[1]).tag = "Some"
    /\ TaskResult(lines[1]).val.kind = "Atom"
    /\ TaskResult(lines[2]).tag = "Some"

(***************************************************************************)
(* A record against the other lines of its input.                          *)
(***************************************************************************)
\* The outputs of the two drivers for the input made of one line alone.
AloneParallel == [l \in LineSet |-> pdbreader_parallel(<<l>>)]
AloneSingle == [l \in LineSet |-> pdbreader_single(<<l>>)]

\* Records a and b agree in every field, the serial excepted when the
\* line is an atom line whose decoded serial is 0.
SameButZeroSerial(a, b, line) ==
    \/ a = b
    \/ /\ a.kind \in AtomKinds /\ b.kind = a.kind
       /\ DecodeTable[line].val.rec.serial = 0
       /\ [a EXCEPT !.rec.serial = 0] = [b EXCEPT !.rec.serial = 0]

\* out, taken from the lines src, gives every line what the line gives
\* when it is the whole input.
SameAsAlone(out, src, alone) ==
    /\ \A i \in 1..Len(lines) :
          (\E k \in 1..Len(src) : src[k] = i)
              <=> Len(alone[lines[i]].out) = 1
    /\ \A k \in 1..Len(src) :
          SameButZeroSerial(out[k], alone[lines[src[k]]].out[1],
                            lines[src[k]])
    /\ \A k \in 1..Len(src) : \A h \in 1..Len(src) :
          lines[src[k]] = lines[src[h]] =>
              SameButZeroSerial(out[k], out[h], lines[src[k]])

\* C23: the record decoded for a line depends only on that line's bytes:
\* in every returned output a line is dropped or kept as it is when it
\* is the whole input, and its record agrees in every field with the
\* record of the same bytes in that other input and at any other
\* position, the serial of an atom record whose decoded serial is 0
\* excepted.
C23_RecordDependsOnLineOnly ==
    /\ p_status = "done" => SameAsAlone(p_record, p_src, AloneParallel)
    /\ s_status = "done" => SameAsAlone(s_out, s_src, AloneSingle)

\* The same atom line with a declared serial stands second and third,
\* behind a line that is dropped and before no other record.
C23_Witness ==
    /\ p_status = "done" /\ s_status = "done"
    /\ Len(lines) = 3 /\ lines[2] = lines[3]
    /\ TaskResult(lines[1]).tag = "None"
    /\ Len(p_record) = 2 /\ Len(s_out) = 2
    /\ p_record[1].kind = "Atom" /\ p_record[1].rec.serial = 5
    /\ p_record[2] = p_record[1]

(***************************************************************************)
(* The two failures of Record::try_from.                                   *)
(***************************************************************************)
\* The tags of the record types Record::try_from has an arm for.
KnownTags ==
    { "ANISOU", "ATOM  ", "CONECT", "CRYST1", "DBREF ", "ENDMDL", "HETATM",
      "HET   ", "HETNAM", "MTRIX1", "MTRIX2", "MTRIX3", "MODEL ", "MODRES",
      "NUMMDL", "ORIGX1", "ORIGX2", "ORIGX3", "SCALE1", "SCALE2", "SCALE3",
      "SEQRES", "TER   " }

\* The failure r of the line is the short-line failure for a line under
\* 6 bytes, whatever its bytes, and the unrecognized-type failure exactly
\* for a line of 6 bytes or more whose tag is no known tag.
FailureByLength(line, r) ==
    /\ Len(line) < 6 => r = Err("Unable to parse line")
    /\ r = Err("Unknown record type") <=>
          (Len(line) >= 6 /\ SubSeq(line, 1, 6) \notin KnownTags)
    /\ r = Err("Unable to parse line") => Len(line) < 6

\* C24: a line of fewer than 6 bytes is reported as a failure of its own,
\* decided before any tag is matched: Record::try_from gives the
\* short-line error for every line under 6 bytes and the
\* unrecognized-record-type error only for lines of at least 6 bytes
\* whose tag matches nothing.
C24_ShortLineFailure ==
    c_ra # Idle => FailureByLength(c_a, c_ra) /\ FailureByLength(c_b, c_rb)

\* A 5-byte line that starts as a TER line does, beside a shorter one.
C24_Witness ==
    /\ c_a = "TER  " /\ c_b = "TER"
    /\ c_ra = Err("Unable to parse line") /\ c_rb = c_ra

(***************************************************************************)
(* The sub-number of the matrix families.                                  *)
(***************************************************************************)
\* C25: for the rotation-matrix, coordinate-transform and scale-matrix
\* codecs the sub-number is the character at offset 5: 1, 2 and 3 select
\* the sub-tag, and any other character there is reported as an
\* InvalidSubNumber failure of the line, a decode error the caller
\* receives, never an arithmetic underflow or an abort.
C25_InvalidSubNumberReported ==
    (c_ra # Idle /\ Len(c_a) >= 60) =>
        IF CharAt(c_a, 6) \in {"1", "2", "3"}
        THEN c_ra.tag \in {"Ok", "Panic"}
        ELSE c_ra = Err("InvalidSubNumber")

\* C26: every MtrixN, OrigxN or ScaleN record Record::try_from produces
\* has its variant index equal to its stored field n, which is 1, 2 or 3
\* and the digit the tag ends with; a line whose tag ends otherwise never
\* reaches the match on n, so its "Invalid ... record" arm is not taken
\* through the classifier.
C26_VariantIsStoredN ==
    (c_rb # Idle /\ Len(c_a) >= 6) =>
        /\ c_rb.tag = "Ok" =>
              /\ c_rb.val.kind \in {"MtrixN", "OrigxN", "ScaleN"}
              /\ c_rb.val.rec.sub = c_rb.val.rec.rec.n
              /\ c_rb.val.rec.sub \in {1, 2, 3}
              /\ c_rb.val.rec.sub = DigitValue(CharAt(c_a, 6))
        /\ CharAt(c_a, 6) \notin {"1", "2", "3"} =>
              c_rb = Err("Unknown record type")

C26_Witness ==
    /\ c_rb # Idle /\ c_rb.tag = "Ok"
    /\ c_rb.val.kind = "ScaleN" /\ c_rb.val.rec.sub = 3
    /\ c_rb.val.rec.rec.n = 3
    /\ c_rb.val.rec.rec.un = [m |-> 1661, e |-> 2]

(***************************************************************************)
(* Uniqueness of the serials.                                              *)
(***************************************************************************)
\* The nonzero serials the atom lines of the input declare are pairwise
\* distinct.
DeclaredDistinct ==
    \A i \in 1..Len(lines) : \A j \in 1..Len(lines) :
        (i < j /\ AtomSerial(lines[i]) # 0 /\ AtomSerial(lines[j]) # 0)
            => AtomSerial(lines[i]) # AtomSerial(lines[j])

\* No two atom records of out carry the same serial.
SerialsUnique(out) ==
    \A k \in 1..Len(out) : \A h \in 1..Len(out) :
        (k < h /\ out[k].kind = "Atom" /\ out[h].kind = "Atom")
            => out[k].rec.serial # out[h].rec.serial

\* C27: after normalization the atom serials of the output are unique
\* whenever the nonzero serials the input declares are pairwise distinct:
\* no serial the Normalizer assigns equals the serial of another atom of
\* the same output.
C27_SerialsUnique ==
    DeclaredDistinct =>
        /\ p_status = "done" => SerialsUnique(p_record)
        /\ s_status = "done" => SerialsUnique(s_out)

(***************************************************************************)
(* The serial pass and the records that are not Atom.                      *)
(***************************************************************************)
\* Every Hetatm record of the vector is the record its codec produced.
HetatmAsDecoded ==
    \A k \in 1..Len(p_record) :
        p_record[k].kind = "Hetatm" => p_record[k] = Decoded(p_src[k])

\* C28: in pdbreader_parallel the serial pass rewrites only records of
\* variant Atom: the step that visits a Hetatm record leaves the vector
\* and the running counter as they are, so a Hetatm record keeps the
\* serial its codec produced, 0 included, and the atoms behind it are
\* numbered as if it were not there.
C28_HetatmOutsidePass ==
    [][ /\ HetatmAsDecoded /\ HetatmAsDecoded'
        /\ (p_status = "normalizing" /\ p_j <= Len(p_record)
              /\ p_record[p_j].kind # "Atom") =>
                 /\ p_record' = p_record
                 /\ p_last' = p_last
    ]_vars

\* A Hetatm record without a serial between a declared and an undeclared
\* atom.
C28_Witness ==
    /\ p_status = "done" /\ Len(p_record) = 3
    /\ p_record[1].kind = "Atom" /\ p_record[1].rec.serial = 5
    /\ p_record[2].kind = "Hetatm" /\ p_record[2].rec.serial = 0
    /\ p_record[3].kind = "Atom" /\ p_record[3].rec.serial = 6

(***************************************************************************)
(* The serial pass applied twice.                                          *)
(***************************************************************************)
\* C29: the Normalizer is idempotent: the serial pass applied once more
\* to its own output, the counter restarted at 0, changes no record.
C29_NormalizerIdempotent ==
    /\ p_status = "done" => NormalizeFrom(p_record, 1, 0) = p_record
    /\ s_status = "done" => NormalizeFrom(s_out, 1, 0) = s_out

\* An output whose first two serials the pass assigned and whose third
\* was declared.
C29_Witness ==
    /\ p_status = "done" /\ s_status = "done" /\ Len(lines) = 3
    /\ AtomSerial(lines[1]) = 0 /\ AtomSerial(lines[2]) = 0
    /\ AtomSerial(lines[3]) = 5
    /\ AtomSerials(p_record) = <<1, 2, 5>> /\ s_out = p_record
    /\ NormalizeFrom(p_record, 1, 0) = p_record

(***************************************************************************)
(* Element and charge of an atom record.                                   *)
(***************************************************************************)
\* The string s ends with the string t.
EndsWith(s, t) ==
    Len(t) <= Len(s) /\ SubSeq(s, Len(s) - Len(t) + 1, Len(s)) = t

\* C30: in every Atom or HeteroAtom record, the charge being sliced from
\* [78,80) inside the element slice [77,80), a charge that is present
\* comes with an element that is present and ends with the charge
\* string; no record has a charge and no element.
C30_ChargeInsideElement ==
    (c_ra # Idle /\ c_ra.tag = "Ok" /\ c_ra.val.kind \in AtomKinds) =>
        (IsSome(c_ra.val.rec.charge) =>
            /\ IsSome(c_ra.val.rec.element)
            /\ EndsWith(Unwrap(c_ra.val.rec.element),
                        Unwrap(c_ra.val.rec.charge)))

\* A line whose bytes [76,78) are blank and whose bytes [78,80) hold a
\* charge.
C30_Witness ==
    /\ c_ra # Idle /\ c_ra.tag = "Ok" /\ c_ra.val.kind = "Atom"
    /\ Len(c_a) = 80 /\ SubSeq(c_a, 77, 80) = "  1+"
    /\ c_ra.val.rec.charge = Some("1+")
    /\ c_ra.val.rec.element = Some("1+")

====
